---- MODULE Spec2Model ----
(***************************************************************************)
(* Model of the ingestion pipeline of the mayday backend:                  *)
(*   utils/ingestion/s3_to_db.py  (batch ingestion of company resources,   *)
(*                                 process_documents_to_chunks)            *)
(*   utils/ingestion/chunk_contextualiser.py  (contexts of the chunks)     *)
(*   utils/ingestion/db_to_vector.py  (the chunks into the vector index)   *)
(* The persistence store is the three tables company_resources, documents  *)
(* and chunks; only committed rows are part of the state.  Object storage  *)
(* is the function s3.  Every commit and every call to a collaborator is a *)
(* step that may succeed or raise, and the process may be killed between   *)
(* any two steps.                                                          *)
(***************************************************************************)
EXTENDS Integers, Sequences, FiniteSets, TLC

(***************************************************************************)
(* Bounds of the model.                                                    *)
(***************************************************************************)
\* number of rows of company_resources
NumResources == 2
\* number of batch runs (process_resources_from_db) that are started
MaxRuns == 2
\* number of failures the environment injects: get_object or a commit raising,
\* the process being killed
MaxFaults == 1

ResourceIds == 1 .. NumResources
RunIds == 1 .. MaxRuns
\* the processes that may execute process_resources_from_db
AllRunners == {1, 2}

(***************************************************************************)
(* Program constants.                                                      *)
(***************************************************************************)
\* chunk_size and chunk_overlap defaults of extract_pdf_content_to_document_db
DefaultChunkSize == 1000
DefaultChunkOverlap == 50
\* len("\n"), the separator handed to CharacterTextSplitter
SeparatorLen == 1

\* Python's None
None == <<>>

(***************************************************************************)
(* Texts.  A text is the sequence of its lines (the pieces between "\n"):  *)
(* a line n > 0 is n non-whitespace characters, n < 0 is -n blanks, and    *)
(* 0 is the empty line.                                                    *)
(***************************************************************************)
Abs(n) == IF n < 0 THEN -n ELSE n

\* length function of the splitter: len(d) for one piece
LineLen(d) == Abs(d)

RECURSIVE LStrip(_)
LStrip(t) == IF t = <<>> THEN <<>>
             ELSE IF Head(t) <= 0 THEN LStrip(Tail(t)) ELSE t

RECURSIVE RStrip(_)
RStrip(t) == IF t = <<>> THEN <<>>
             ELSE IF t[Len(t)] <= 0 THEN RStrip(SubSeq(t, 1, Len(t) - 1)) ELSE t

\* str.strip() of the pieces joined with "\n"
Strip(t) == RStrip(LStrip(t))

\* _join_docs without the strip: separator.join(docs), None when empty
JoinDocsUnstripped(docs) == IF docs = <<>> THEN None ELSE docs

\* TextSplitter._join_docs: separator.join(docs).strip(), None when empty
JoinDocs(docs) == IF Strip(docs) = <<>> THEN None ELSE Strip(docs)

\* re.split("\n", text) with the empty pieces dropped
SplitTextWithRegex(text) == SelectSeq(text, LAMBDA d : d # 0)

\* the while loop of _merge_splits that pops pieces off the front of
\* current_doc; st = <<current_doc, total>>
RECURSIVE PopFront(_, _, _, _)
PopFront(st, len, chunk_size, chunk_overlap) ==
    LET current_doc == st[1]
        total == st[2]
    IN  IF \/ total > chunk_overlap
           \/ /\ total + len + (IF Len(current_doc) > 0 THEN SeparatorLen ELSE 0)
                     > chunk_size
              /\ total > 0
        THEN PopFront(<<Tail(current_doc),
                        total - (LineLen(Head(current_doc))
                                 + (IF Len(current_doc) > 1 THEN SeparatorLen ELSE 0))>>,
                      len, chunk_size, chunk_overlap)
        ELSE st

\* TextSplitter._merge_splits
RECURSIVE MergeSplits(_, _, _, _, _, _)
MergeSplits(splits, docs, current_doc, total, chunk_size, chunk_overlap) ==
    IF splits = <<>>
    THEN IF JoinDocs(current_doc) = None THEN docs
         ELSE Append(docs, JoinDocs(current_doc))
    ELSE
      LET d == Head(splits)
          len == LineLen(d)
          over == total + len + (IF Len(current_doc) > 0 THEN SeparatorLen ELSE 0)
                     > chunk_size
          flush == over /\ Len(current_doc) > 0
          docs1 == IF flush /\ JoinDocs(current_doc) # None
                   THEN Append(docs, JoinDocs(current_doc)) ELSE docs
          st == IF flush
                THEN PopFront(<<current_doc, total>>, len, chunk_size, chunk_overlap)
                ELSE <<current_doc, total>>
          current1 == Append(st[1], d)
          total1 == st[2] + len + (IF Len(current1) > 1 THEN SeparatorLen ELSE 0)
      IN  MergeSplits(Tail(splits), docs1, current1, total1, chunk_size, chunk_overlap)

\* CharacterTextSplitter(chunk_size, chunk_overlap, separator="\n").split_text
split_text(text, chunk_size, chunk_overlap) ==
    MergeSplits(SplitTextWithRegex(text), <<>>, <<>>, 0, chunk_size, chunk_overlap)

(***************************************************************************)
(* Objects of the store.  A fetched object is its leading bytes (magic)    *)
(* and what PyPDFLoader makes of it: the texts of the pages it yields, and *)
(* whether it gets through the file (readable) or raises after them.       *)
(***************************************************************************)
PdfMagic == "%PDF-"
Bud1Magic == "Bud1"
Bud1Magic2 == "\\x00\\x00\\x00\\x01Bud1"
OtherMagic == "other"
NoBytes == ""

TextLong == <<600, 600>>
TextShort == <<12>>
TextBlank == <<-3>>
TextEmpty == <<0>>

Contents ==
    { [magic |-> PdfMagic,   pages |-> <<TextLong, TextBlank>>, readable |-> TRUE],
      [magic |-> PdfMagic,   pages |-> <<TextShort>>,           readable |-> FALSE],
      [magic |-> Bud1Magic,  pages |-> <<>>,                    readable |-> FALSE],
      [magic |-> Bud1Magic2, pages |-> <<>>,                    readable |-> FALSE],
      [magic |-> OtherMagic, pages |-> <<TextShort>>,           readable |-> TRUE],
      [magic |-> OtherMagic, pages |-> <<>>,                    readable |-> FALSE],
      [magic |-> NoBytes,    pages |-> <<>>,                    readable |-> FALSE] }

\* bytes.startswith(prefix)
StartsWith(content, prefix) == content.magic = prefix

\* truth value of a bytes object or None
Truthy(file_content) == file_content # None /\ file_content.magic # NoBytes

\* the uuid of a row as a string, and the string bound to a UUID column
Str(u) == [str |-> u]
AsUuid(s) == s.str

CompanyOf(k) == 100 + k
BucketOf(k) == "bucket"
KeyOf(k) == k
\* https://bucket.s3.region.amazonaws.com/key
UrlOf(k) == [domain |-> <<BucketOf(k), "s3", "region", "amazonaws", "com">>, path |-> KeyOf(k)]

VARIABLES
    company_resources,  \* table company_resources: id -> row
    documents,          \* table documents: the committed rows
    chunks,             \* table chunks: the committed rows
    s3,                 \* object storage: <<bucket, key>> -> object
    nextId,             \* the next fresh uuid4
    runners,            \* the processes that run batch ingestion
    faults,             \* number of failures injected so far
    proc,               \* per process: position and locals of process_resources_from_db
    runsStarted,        \* number of batch runs started so far
    selected,           \* history: run -> resources returned by its query
    fetchCalls,         \* history: <<run, resource>> -> number of get_object calls
    outcome,            \* history: <<run, resource>> -> how its processing ended
    runEnd,             \* history: run -> "none", "running", "returned", "killed"
    created,            \* history: rows created, as [id, run, resource]
    rc,                 \* position and locals of process_documents_to_chunks
    cx,                 \* position and locals of the ChunkContextualiser method running
    ix,                 \* position and locals of ingest_chunks_to_pinecone
    pinecone,           \* the vector service: names of its indexes, records of the index
    opsStarted,         \* number of runs of these three scripts started so far
    rechunked,          \* history: chunk rows written by process_documents_to_chunks
    llmCalls,           \* history: number of llm.invoke calls
    indexRuns,          \* history: per run of ingest_chunks_to_pinecone, what it did
    cxRuns,             \* history: per call of a ChunkContextualiser method, what it did
    chat,               \* position, locals and calls of the request being answered
    ex,                 \* position, locals and rows of the call of extract_pdf_to_document_db
    up                  \* position, locals and lists of the call of S3Uploader.upload_files

dbVars == <<company_resources, documents, chunks>>
histVars == <<runsStarted, selected, fetchCalls, outcome, runEnd, created>>
opVars == <<rc, cx, ix, pinecone, opsStarted, rechunked, llmCalls, indexRuns,
            cxRuns, chat, ex, up>>
vars == <<company_resources, documents, chunks, s3, nextId, runners, faults, proc,
          runsStarted, selected, fetchCalls, outcome, runEnd, created,
          rc, cx, ix, pinecone, opsStarted, rechunked, llmCalls, indexRuns,
          cxRuns, chat, ex, up>>

Idle == [pc |-> "idle", run |-> 0, resources |-> <<>>, file_content |-> None,
         pages |-> <<>>, i |-> 0, document |-> None]

InitStore ==
    /\ company_resources \in
         { [k \in ResourceIds |-> [id |-> k, company_id |-> CompanyOf(k),
                                   resource_location |-> UrlOf(k),
                                   is_ingested |-> FALSE]] }
    /\ documents = {}
    /\ chunks = {}
    /\ s3 \in [{<<BucketOf(k), KeyOf(k)>> : k \in ResourceIds} -> Contents]
    /\ nextId = 1

InitHistory ==
    /\ runsStarted = 0
    /\ selected = [k \in RunIds |-> {}]
    /\ fetchCalls = [x \in RunIds \X ResourceIds |-> 0]
    /\ outcome = [x \in RunIds \X ResourceIds |-> "none"]
    /\ runEnd = [k \in RunIds |-> "none"]
    /\ created = {}

\* locals of the three other scripts before they run
RcIdle == [pc |-> "idle", documents |-> <<>>]
CxIdle == [pc |-> "idle", method |-> "none", document |-> None, chunks |-> <<>>,
           pending |-> {}, count |-> 0]
IxIdle == [pc |-> "idle", run |-> 0, chunks |-> <<>>, langchain_docs |-> <<>>, i |-> 0]

\* no request is being answered, none has been
ChatIdle ==
    [pc |-> "idle", call |-> "none", messages |-> <<>>, query_text |-> None,
     top_k |-> 0, retrieved |-> "none", vector_results |-> <<>>,
     vector_context |-> <<>>, doc_metadata |-> <<>>, queries |-> <<>>,
     predicts |-> <<>>, result |-> "none", returned |-> None]

\* extract_pdf_to_document_db is not running, and has not run
ExIdle ==
    [pc |-> "idle", pdf_path |-> 0, pages |-> <<>>, i |-> 0, document |-> None,
     docs |-> {}, end |-> "none"]

\* upload_files is not running, and has not run
UpIdle ==
    [pc |-> "idle", local_path |-> 0, files |-> <<>>, i |-> 0,
     uploaded_files |-> <<>>, failed_files |-> <<>>, db_recorded_files |-> <<>>,
     db_failed_files |-> <<>>, rows |-> {}, report |-> None]

InitOps ==
    /\ rc = RcIdle
    /\ cx = CxIdle
    /\ ix = IxIdle
    /\ pinecone = [indexes |-> {}, vectors |-> {}]
    /\ opsStarted = 0
    /\ rechunked = {}
    /\ llmCalls = 0
    /\ indexRuns = <<>>
    /\ cxRuns = <<>>
    /\ chat = ChatIdle
    /\ ex = ExIdle
    /\ up = UpIdle

Init ==
    /\ InitStore
    /\ InitHistory
    /\ InitOps
    /\ runners = {1}
    /\ faults = 0
    /\ proc = [r \in AllRunners |-> Idle]

(***************************************************************************)
(* Helpers of the actions.                                                 *)
(***************************************************************************)
\* the resource of the current loop iteration
Resource(r) == Head(proc[r].resources)

RECURSIVE InOrder(_)
InOrder(S) == IF S = {} THEN <<>>
              ELSE LET k == CHOOSE x \in S : \A y \in S : x <= y
                   IN  <<k>> \o InOrder(S \ {k})

\* the query without its filter: db.query(CompanyResource).all()
AllResources == InOrder(DOMAIN company_resources)

\* db.query(CompanyResource).filter(CompanyResource.is_ingested == False).all()
UnprocessedResources ==
    InOrder({k \in DOMAIN company_resources : company_resources[k].is_ingested = FALSE})

\* parts = s3_url.replace('https://', '').split('/'); bucket and key
ParseS3Url(s3_url) == <<s3_url.domain[1], s3_url.path>>

\* get_s3_file_content, given whether get_object raises
get_s3_file_content(s3_url, raises) ==
    IF raises THEN None
    ELSE LET file_content == s3[ParseS3Url(s3_url)]
         IN  IF /\ ~StartsWith(file_content, PdfMagic)
                /\ \/ StartsWith(file_content, Bud1Magic)
                   \/ StartsWith(file_content, Bud1Magic2)
             THEN None
             ELSE file_content

\* the environment makes a call raise, or kills the process
Fault == faults < MaxFaults /\ faults' = faults + 1
NoFault == faults' = faults

\* the loop of process_resources_from_db goes on to the next resource
NextResource(r, how) ==
    /\ proc' = [proc EXCEPT ![r] = [Idle EXCEPT !.pc = "loop", !.run = proc[r].run,
                                               !.resources = Tail(proc[r].resources)]]
    /\ outcome' = [outcome EXCEPT ![<<proc[r].run, Resource(r)>>] = how]

\* an exception that ends the loop instead of the iteration
HandleExceptionBreaks(r, how) ==
    /\ proc' = [proc EXCEPT ![r] = [Idle EXCEPT !.pc = "loop", !.run = proc[r].run]]
    /\ outcome' = [outcome EXCEPT ![<<proc[r].run, Resource(r)>>] = how]

\* except Exception in the loop body: print, db.rollback(), next resource
HandleException(r, how) == NextResource(r, how)

(***************************************************************************)
(* process_resources_from_db                                               *)
(***************************************************************************)
\* the query for the resources that are not ingested yet
StartRun(r) ==
    /\ r \in runners
    /\ proc[r].pc = "idle"
    /\ runsStarted < MaxRuns
    /\ runsStarted' = runsStarted + 1
    /\ proc' = [proc EXCEPT ![r] = [Idle EXCEPT !.pc = "loop", !.run = runsStarted + 1,
                                               !.resources = UnprocessedResources]]
    /\ selected' = [selected EXCEPT ![runsStarted + 1] =
                       {UnprocessedResources[n] : n \in 1 .. Len(UnprocessedResources)}]
    /\ runEnd' = [runEnd EXCEPT ![runsStarted + 1] = "running"]
    /\ UNCHANGED opVars
    /\ UNCHANGED <<dbVars, s3, nextId, runners, faults, fetchCalls, outcome, created>>

\* get_object called a second time when the first call raises
FetchResourceRetries(r) ==
    /\ r \in runners
    /\ proc[r].pc = "loop"
    /\ proc[r].resources # <<>>
    /\ \E raises \in BOOLEAN :
         /\ IF raises THEN Fault ELSE NoFault
         /\ LET file_content ==
                    get_s3_file_content(company_resources[Resource(r)].resource_location,
                                        raises)
            IN  IF Truthy(file_content)
                THEN /\ proc' = [proc EXCEPT ![r].pc = "extract",
                                             ![r].file_content = file_content]
                     /\ UNCHANGED outcome
                ELSE NextResource(r, IF raises THEN "fetch_error" ELSE "no_content")
         /\ fetchCalls' = [fetchCalls EXCEPT ![<<proc[r].run, Resource(r)>>] =
                              @ + (IF raises THEN 2 ELSE 1)]
    /\ UNCHANGED opVars
    /\ UNCHANGED <<dbVars, s3, nextId, runners, runsStarted, selected, runEnd, created>>

\* file_content = get_s3_file_content(resource.resource_location); if file_content:
FetchResource(r) ==
    /\ r \in runners
    /\ proc[r].pc = "loop"
    /\ proc[r].resources # <<>>
    /\ \E raises \in BOOLEAN :
         /\ IF raises THEN Fault ELSE NoFault
         /\ LET file_content ==
                    get_s3_file_content(company_resources[Resource(r)].resource_location,
                                        raises)
            IN  IF Truthy(file_content)
                THEN /\ proc' = [proc EXCEPT ![r].pc = "extract",
                                             ![r].file_content = file_content]
                     /\ UNCHANGED outcome
                ELSE NextResource(r, IF raises THEN "fetch_error" ELSE "no_content")
    /\ fetchCalls' = [fetchCalls EXCEPT ![<<proc[r].run, Resource(r)>>] = @ + 1]
    /\ UNCHANGED opVars
    /\ UNCHANGED <<dbVars, s3, nextId, runners, runsStarted, selected, runEnd, created>>

\* the pages read before the loader raised are handed on to be stored
LoadPdfPartial(r) ==
    /\ r \in runners
    /\ proc[r].pc = "extract"
    /\ LET pdf_content == proc[r].file_content
       IN  IF /\ ~StartsWith(pdf_content, PdfMagic)
              /\ \/ StartsWith(pdf_content, Bud1Magic2)
                 \/ StartsWith(pdf_content, Bud1Magic)
           THEN /\ proc' = [proc EXCEPT ![r].pc = "mark"]
                /\ UNCHANGED outcome
           ELSE IF ~pdf_content.readable /\ pdf_content.pages = <<>>
           THEN HandleException(r, "extract_error")
           ELSE /\ proc' = [proc EXCEPT ![r].pc = "document",
                                        ![r].pages = pdf_content.pages,
                                        ![r].i = 0]
                /\ UNCHANGED outcome
    /\ UNCHANGED opVars
    /\ UNCHANGED <<dbVars, s3, nextId, runners, faults, runsStarted, selected,
                   fetchCalls, runEnd, created>>

\* extract_pdf_content_to_document_db up to pages = loader.load()
LoadPdf(r) ==
    /\ r \in runners
    /\ proc[r].pc = "extract"
    /\ LET pdf_content == proc[r].file_content
       IN  IF /\ ~StartsWith(pdf_content, PdfMagic)
              /\ \/ StartsWith(pdf_content, Bud1Magic2)
                 \/ StartsWith(pdf_content, Bud1Magic)
           THEN \* return
                /\ proc' = [proc EXCEPT ![r].pc = "mark"]
                /\ UNCHANGED outcome
           ELSE IF ~pdf_content.readable
           THEN HandleException(r, "extract_error")
           ELSE /\ proc' = [proc EXCEPT
                              ![r].pc = IF pdf_content.pages = <<>> THEN "mark"
                                        ELSE "document",
                              ![r].pages = pdf_content.pages,
                              ![r].i = 0]
                /\ UNCHANGED outcome
    /\ UNCHANGED opVars
    /\ UNCHANGED <<dbVars, s3, nextId, runners, faults, runsStarted, selected,
                   fetchCalls, runEnd, created>>

\* a variant that looks for a Document of the same resource and page first
AddDocumentUnique(r) ==
    /\ r \in runners
    /\ proc[r].pc = "document"
    /\ LET resource == company_resources[Resource(r)]
           i == proc[r].i
           existing == {d \in documents : /\ d.resource_id = resource.id
                                          /\ d.page_number = i + 1}
           document == [id |-> nextId,
                        company_id |-> AsUuid(Str(resource.company_id)),
                        resource_id |-> AsUuid(Str(resource.id)),
                        text |-> proc[r].pages[i + 1],
                        page_number |-> i + 1,
                        file_path |-> resource.resource_location]
       IN  \/ /\ existing = {}
              /\ documents' = documents \cup {document}
              /\ nextId' = nextId + 1
              /\ proc' = [proc EXCEPT ![r].pc = "chunks", ![r].document = document]
              /\ created' = created \cup
                    {[id |-> document.id, run |-> proc[r].run, resource |-> Resource(r)]}
              /\ UNCHANGED outcome
              /\ NoFault
           \/ /\ existing # {}
              /\ proc' = [proc EXCEPT ![r].pc = "chunks",
                                      ![r].document = CHOOSE d \in existing : TRUE]
              /\ UNCHANGED <<documents, nextId, created, outcome>>
              /\ NoFault
           \/ \* db.commit() raises
              /\ Fault
              /\ HandleException(r, "persist_error")
              /\ UNCHANGED <<documents, nextId, created>>
    /\ UNCHANGED opVars
    /\ UNCHANGED <<company_resources, chunks, s3, runners, runsStarted, selected,
                   fetchCalls, runEnd>>

\* document = Document(...); db.add(document); db.commit(); db.refresh(document)
AddDocument(r) ==
    /\ r \in runners
    /\ proc[r].pc = "document"
    /\ LET resource == company_resources[Resource(r)]
           i == proc[r].i
           document == [id |-> nextId,
                        company_id |-> AsUuid(Str(resource.company_id)),
                        resource_id |-> AsUuid(Str(resource.id)),
                        text |-> proc[r].pages[i + 1],
                        page_number |-> i + 1,
                        file_path |-> resource.resource_location]
       IN  \/ /\ documents' = documents \cup {document}
              /\ nextId' = nextId + 1
              /\ proc' = [proc EXCEPT ![r].pc = "chunks", ![r].document = document]
              /\ created' = created \cup
                    {[id |-> document.id, run |-> proc[r].run, resource |-> Resource(r)]}
              /\ UNCHANGED outcome
              /\ NoFault
           \/ \* db.commit() raises
              /\ Fault
              /\ HandleException(r, "persist_error")
              /\ UNCHANGED <<documents, nextId, created>>
    /\ UNCHANGED opVars
    /\ UNCHANGED <<company_resources, chunks, s3, runners, runsStarted, selected,
                   fetchCalls, runEnd>>

\* the chunk commit's exception swallowed: the loop goes on to the next page
AddChunksSwallowed(r) ==
    /\ r \in runners
    /\ proc[r].pc = "chunks"
    /\ LET resource == company_resources[Resource(r)]
           i == proc[r].i
           text_chunks == split_text(proc[r].pages[i + 1],
                                     DefaultChunkSize, DefaultChunkOverlap)
           new == {[id |-> nextId + n - 1,
                    document_id |-> proc[r].document.id,
                    company_id |-> AsUuid(Str(resource.company_id)),
                    text |-> text_chunks[n],
                    context |-> None] : n \in 1 .. Len(text_chunks)}
       IN  /\ proc' = [proc EXCEPT
                         ![r].pc = IF i + 1 = Len(proc[r].pages) THEN "mark"
                                   ELSE "document",
                         ![r].i = i + 1,
                         ![r].document = None]
           /\ UNCHANGED outcome
           /\ \/ /\ chunks' = chunks \cup new
                 /\ nextId' = nextId + Len(text_chunks)
                 /\ created' = created \cup
                       {[id |-> c.id, run |-> proc[r].run, resource |-> Resource(r)] :
                            c \in new}
                 /\ NoFault
              \/ /\ Fault
                 /\ UNCHANGED <<chunks, nextId, created>>
    /\ UNCHANGED opVars
    /\ UNCHANGED <<company_resources, documents, s3, runners, runsStarted, selected,
                   fetchCalls, runEnd>>

\* text_chunks = text_splitter.split_text(page.page_content); the Chunks; db.commit()
AddChunks(r) ==
    /\ r \in runners
    /\ proc[r].pc = "chunks"
    /\ LET resource == company_resources[Resource(r)]
           i == proc[r].i
           text_chunks == split_text(proc[r].pages[i + 1],
                                     DefaultChunkSize, DefaultChunkOverlap)
           new == {[id |-> nextId + n - 1,
                    document_id |-> proc[r].document.id,
                    company_id |-> AsUuid(Str(resource.company_id)),
                    text |-> text_chunks[n],
                    context |-> None] : n \in 1 .. Len(text_chunks)}
       IN  \/ /\ chunks' = chunks \cup new
              /\ nextId' = nextId + Len(text_chunks)
              /\ proc' = [proc EXCEPT
                            ![r].pc = IF i + 1 = Len(proc[r].pages) THEN "mark"
                                      ELSE "document",
                            ![r].i = i + 1,
                            ![r].document = None]
              /\ created' = created \cup
                    {[id |-> c.id, run |-> proc[r].run, resource |-> Resource(r)] : c \in new}
              /\ UNCHANGED outcome
              /\ NoFault
           \/ \* db.commit() raises
              /\ Fault
              /\ HandleException(r, "persist_error")
              /\ UNCHANGED <<chunks, nextId, created>>
    /\ UNCHANGED opVars
    /\ UNCHANGED <<company_resources, documents, s3, runners, runsStarted, selected,
                   fetchCalls, runEnd>>

\* no db.rollback() after the failed commit: the pending is_ingested = True
\* reaches the store with the session's next flush
MarkIngestedNoRollback(r) ==
    /\ r \in runners
    /\ proc[r].pc = "mark"
    /\ company_resources' = [company_resources EXCEPT ![Resource(r)].is_ingested = TRUE]
    /\ \/ NextResource(r, "ok") /\ NoFault
       \/ HandleException(r, "mark_error") /\ Fault
    /\ UNCHANGED opVars
    /\ UNCHANGED <<documents, chunks, s3, nextId, runners, runsStarted, selected,
                   fetchCalls, runEnd, created>>

\* a variant that goes on to the next resource without setting the flag
MarkIngestedUnset(r) ==
    /\ r \in runners
    /\ proc[r].pc = "mark"
    /\ \/ /\ NextResource(r, "ok")
          /\ NoFault
       \/ /\ Fault
          /\ HandleException(r, "mark_error")
    /\ UNCHANGED company_resources
    /\ UNCHANGED opVars
    /\ UNCHANGED <<documents, chunks, s3, nextId, runners, runsStarted, selected,
                   fetchCalls, runEnd, created>>

\* resource.is_ingested = True; db.commit()
MarkIngested(r) ==
    /\ r \in runners
    /\ proc[r].pc = "mark"
    /\ \/ /\ company_resources' =
                [company_resources EXCEPT ![Resource(r)].is_ingested = TRUE]
          /\ NextResource(r, "ok")
          /\ NoFault
       \/ \* db.commit() raises
          /\ Fault
          /\ HandleException(r, "mark_error")
          /\ UNCHANGED company_resources
    /\ UNCHANGED opVars
    /\ UNCHANGED <<documents, chunks, s3, nextId, runners, runsStarted, selected,
                   fetchCalls, runEnd, created>>

\* the loop is over: db.close()
FinishRun(r) ==
    /\ r \in runners
    /\ proc[r].pc = "loop"
    /\ proc[r].resources = <<>>
    /\ proc' = [proc EXCEPT ![r] = Idle]
    /\ runEnd' = [runEnd EXCEPT ![proc[r].run] = "returned"]
    /\ UNCHANGED opVars
    /\ UNCHANGED <<dbVars, s3, nextId, runners, faults, runsStarted, selected,
                   fetchCalls, outcome, created>>

\* the process is killed: what is not committed is lost
Crash(r) ==
    /\ r \in runners
    /\ proc[r].pc # "idle"
    /\ Fault
    /\ proc' = [proc EXCEPT ![r] = Idle]
    /\ runEnd' = [runEnd EXCEPT ![proc[r].run] = "killed"]
    /\ outcome' = IF proc[r].pc \in {"extract", "document", "chunks", "mark"}
                  THEN [outcome EXCEPT ![<<proc[r].run, Resource(r)>>] = "killed"]
                  ELSE outcome
    /\ UNCHANGED opVars
    /\ UNCHANGED <<dbVars, s3, nextId, runners, runsStarted, selected, fetchCalls,
                   created>>

Next ==
    \E r \in AllRunners :
        \/ StartRun(r)
        \/ FetchResource(r)
        \/ LoadPdf(r)
        \/ AddDocument(r)
        \/ AddChunks(r)
        \/ MarkIngested(r)
        \/ FinishRun(r)
        \/ Crash(r)

Spec == Init /\ [][Next]_vars

(***************************************************************************)
(* Two processes run process_resources_from_db at the same time over a     *)
(* store that holds one resource.  Each process has its own session; a     *)
(* step of the model ends at a commit, so every interleaving of the        *)
(* commits of the two runs is a behaviour.                                 *)
(***************************************************************************)
\* the resources of a store with a single registered file
OneResource == {1}

InitOne ==
    /\ company_resources \in
         { [k \in OneResource |-> [id |-> k, company_id |-> CompanyOf(k),
                                   resource_location |-> UrlOf(k),
                                   is_ingested |-> FALSE]] }
    /\ documents = {}
    /\ chunks = {}
    /\ s3 \in [{<<BucketOf(k), KeyOf(k)>> : k \in OneResource} -> Contents]
    /\ nextId = 1
    /\ InitHistory
    /\ InitOps
    /\ faults = 0
    /\ proc = [r \in AllRunners |-> Idle]

InitRace == InitOne /\ runners = AllRunners

SpecRace == InitRace /\ [][Next]_vars

(***************************************************************************)
(* Batch ingestion run again and again by one process over the store with  *)
(* one resource: a process that is not killed takes its next step, and     *)
(* while runs are left the operator starts the next one.                   *)
(***************************************************************************)
InitLive == InitOne /\ runners = {1}

SpecLive == InitLive /\ [][Next]_vars /\ WF_vars(Next)

(***************************************************************************)
(* The other scripts of the pipeline:                                      *)
(*   utils/ingestion/s3_to_db.py           process_documents_to_chunks     *)
(*   utils/ingestion/chunk_contextualiser.py  ChunkContextualiser          *)
(*   utils/ingestion/db_to_vector.py       ingest_chunks_to_pinecone       *)
(* None of them catches an exception: a commit or a collaborator raising   *)
(* ends the run where it stands, as killing the process does.              *)
(***************************************************************************)
\* number of script runs that are started when the scripts are run together
MaxOps == 2

\* chunk_overlap of process_documents_to_chunks
RechunkChunkOverlap == 30

\* NULL in an integer or uuid column (documents.resource_id, documents.page_number)
NullInt == -1

\* the value process_documents_to_chunks gives a missing file_path
UnknownPath == [domain |-> <<"unknown_path">>, path |-> 0]

\* the row of table documents with this id
DocumentById(id) == CHOOSE d \in documents : d.id = id

\* the scripts are run one after the other
ScriptsIdle ==
    /\ \A r \in AllRunners : proc[r].pc = "idle"
    /\ rc.pc = "idle"
    /\ cx.pc = "idle"
    /\ ix.pc = "idle"

\* number of script runs started so far
ScriptsStarted == runsStarted + opsStarted

\* python s3_to_db.py: a batch run, started when no other script is running
StartRunAlone(r) ==
    /\ ScriptsIdle
    /\ ScriptsStarted < MaxOps
    /\ StartRun(r)

\* documents = db.query(Document).all()
RechunkStart ==
    /\ ScriptsIdle
    /\ ScriptsStarted < MaxOps
    /\ opsStarted' = opsStarted + 1
    /\ rc' = [pc |-> "loop", documents |-> InOrder({d.id : d \in documents})]
    /\ UNCHANGED <<cxRuns, chat, ex, up>>
    /\ UNCHANGED <<cx, ix, pinecone, rechunked, llmCalls, indexRuns>>
    /\ UNCHANGED <<dbVars, s3, nextId, runners, faults, proc, histVars>>

\* one document of the loop without the count of its chunks: every document
\* is given chunks
RechunkDocumentAlways ==
    /\ rc.pc = "loop"
    /\ rc.documents # <<>>
    /\ LET document == DocumentById(Head(rc.documents))
           patched == [document EXCEPT
                         !.page_number = IF @ = NullInt THEN 0 ELSE @,
                         !.file_path = IF @ = None THEN UnknownPath ELSE @]
       IN  \/ /\ documents' = (documents \ {document}) \cup {patched}
              /\ rc' = [rc EXCEPT !.pc = "chunks"]
              /\ NoFault
           \/ /\ Fault
              /\ rc' = RcIdle
              /\ UNCHANGED documents
    /\ UNCHANGED <<cxRuns, chat, ex, up>>
    /\ UNCHANGED <<cx, ix, pinecone, opsStarted, rechunked, llmCalls, indexRuns>>
    /\ UNCHANGED <<company_resources, chunks, s3, nextId, runners, proc, histVars>>

\* one document of the loop: the count of its chunks and, when it has none,
\* the defaults of page_number and file_path and their commit
RechunkDocument ==
    /\ rc.pc = "loop"
    /\ rc.documents # <<>>
    /\ LET document == DocumentById(Head(rc.documents))
           existing_chunks == Cardinality({c \in chunks : c.document_id = document.id})
           patched == [document EXCEPT
                         !.page_number = IF @ = NullInt THEN 0 ELSE @,
                         !.file_path = IF @ = None THEN UnknownPath ELSE @]
       IN  IF existing_chunks = 0
           THEN \/ /\ documents' = (documents \ {document}) \cup {patched}
                   /\ rc' = [rc EXCEPT !.pc = "chunks"]
                   /\ NoFault
                \/ /\ Fault
                   /\ rc' = RcIdle
                   /\ UNCHANGED documents
           ELSE /\ rc' = [rc EXCEPT !.documents = Tail(@)]
                /\ NoFault
                /\ UNCHANGED documents
    /\ UNCHANGED <<cxRuns, chat, ex, up>>
    /\ UNCHANGED <<cx, ix, pinecone, opsStarted, rechunked, llmCalls, indexRuns>>
    /\ UNCHANGED <<company_resources, chunks, s3, nextId, runners, proc, histVars>>

\* the chunk rows with document.company_id, not document.id, as document_id
RechunkRowsByCompany(document) ==
    LET text_chunks == split_text(document.text, DefaultChunkSize, RechunkChunkOverlap)
    IN  { [id |-> nextId + j - 1, document_id |-> document.company_id,
           company_id |-> document.company_id, text |-> text_chunks[j],
           context |-> None] : j \in 1 .. Len(text_chunks) }

\* the chunk rows process_documents_to_chunks builds for a document
RechunkRows(document) ==
    LET text_chunks == split_text(document.text, DefaultChunkSize, RechunkChunkOverlap)
    IN  { [id |-> nextId + j - 1, document_id |-> document.id,
           company_id |-> document.company_id, text |-> text_chunks[j],
           context |-> None] : j \in 1 .. Len(text_chunks) }

\* split_text, the Chunk rows and their commit
RechunkChunks ==
    /\ rc.pc = "chunks"
    /\ LET document == DocumentById(Head(rc.documents))
           rows == RechunkRows(document)
       IN  \/ /\ chunks' = chunks \cup rows
              /\ nextId' = nextId + Cardinality(rows)
              /\ rechunked' = rechunked \cup {c.id : c \in rows}
              /\ rc' = [pc |-> "loop", documents |-> Tail(rc.documents)]
              /\ NoFault
           \/ /\ Fault
              /\ rc' = RcIdle
              /\ UNCHANGED <<chunks, nextId, rechunked>>
    /\ UNCHANGED <<cxRuns, chat, ex, up>>
    /\ UNCHANGED <<cx, ix, pinecone, opsStarted, llmCalls, indexRuns>>
    /\ UNCHANGED <<company_resources, documents, s3, runners, proc, histVars>>

\* the loop is over: finally db.close()
RechunkFinish ==
    /\ rc.pc = "loop"
    /\ rc.documents = <<>>
    /\ rc' = RcIdle
    /\ UNCHANGED <<cxRuns, chat, ex, up>>
    /\ UNCHANGED <<cx, ix, pinecone, opsStarted, rechunked, llmCalls, indexRuns>>
    /\ UNCHANGED <<dbVars, s3, nextId, runners, faults, proc, histVars>>

(***************************************************************************)
(* ChunkContextualiser.  llm.invoke is a collaborator: it returns a text   *)
(* or raises; the text of call n is written [ctx |-> n].                   *)
(***************************************************************************)
\* the two methods that write contexts
ContextMethods == {"process_all_chunks_for_document", "update_chunk_contexts_in_db"}

\* a document_id that no row of documents has
MissingDocumentId == 0

\* the contexts of upd written, and a line of context put before chunk.text
WithContextsPrepended(rows, upd) ==
    { IF \E u \in upd : u[1] = c.id
      THEN [c EXCEPT !.context = (CHOOSE u \in upd : u[1] = c.id)[2],
                     !.text = TextShort \o @]
      ELSE c : c \in rows }

\* the contexts of upd put after the context the chunk had: the text of
\* answer m followed by that of answer n is numbered (m + 1) * 100 + n
WithContextsAppended(rows, upd) ==
    { IF \E u \in upd : u[1] = c.id
      THEN LET new == (CHOOSE u \in upd : u[1] = c.id)[2]
           IN  [c EXCEPT !.context = IF @ = None THEN new
                                     ELSE [ctx |-> (@.ctx + 1) * 100 + new.ctx]]
      ELSE c : c \in rows }

\* table chunks with the contexts of upd (a set of <<chunk id, context>>) written
WithContexts(rows, upd) ==
    { IF \E u \in upd : u[1] = c.id
      THEN [c EXCEPT !.context = (CHOOSE u \in upd : u[1] = c.id)[2]]
      ELSE c : c \in rows }

\* the record of a call in the history: the table chunks and the number of
\* llm.invoke calls before it and after it, the contexts it generated, how it
\* ended and what it returned (the count, or the size of the results dict)
NewCtxRun(method, document_id) ==
    [method |-> method, document_id |-> document_id, found |-> FALSE,
     before |-> chunks, after |-> chunks, llmBefore |-> llmCalls,
     llmAfter |-> llmCalls, generated |-> <<>>, end |-> "running",
     returned |-> NullInt]

\* a method is called: the query of the document, the early return when
\* there is none, the query of its chunks
CtxCall(method, document_id) ==
    /\ ScriptsIdle
    /\ ScriptsStarted < MaxOps
    /\ opsStarted' = opsStarted + 1
    /\ LET found == {d \in documents : d.id = document_id}
       IN  IF found = {}
           THEN /\ cx' = CxIdle
                /\ cxRuns' = Append(cxRuns,
                      [NewCtxRun(method, document_id) EXCEPT
                         !.end = "returned", !.returned = 0])
           ELSE /\ cx' = [pc |-> "loop", method |-> method,
                          document |-> DocumentById(document_id),
                          chunks |-> InOrder({c.id : c \in {k \in chunks :
                                                      k.document_id = document_id}}),
                          pending |-> {}, count |-> 0]
                /\ cxRuns' = Append(cxRuns,
                      [NewCtxRun(method, document_id) EXCEPT !.found = TRUE])
    /\ UNCHANGED <<chat, ex, up>>
    /\ UNCHANGED <<rc, ix, pinecone, rechunked, llmCalls, indexRuns>>
    /\ UNCHANGED <<dbVars, s3, nextId, runners, faults, proc, histVars>>

\* a call of one of the methods, for a document of the store or for an id
\* that no document has
CtxStart ==
    \E method \in ContextMethods :
      \E document_id \in {d.id : d \in documents} \cup {MissingDocumentId} :
         CtxCall(method, document_id)

\* one chunk of the loop: contextualise_chunk, chunk.context = context and,
\* in process_all_chunks_for_document, db.commit()
CtxChunk ==
    /\ cx.pc = "loop"
    /\ cx.chunks # <<>>
    /\ llmCalls' = llmCalls + 1
    /\ LET id == Head(cx.chunks)
           context == [ctx |-> llmCalls + 1]
       IN  \/ /\ NoFault
              /\ IF cx.method = "process_all_chunks_for_document"
                 THEN /\ chunks' = WithContexts(chunks, {<<id, context>>})
                      /\ cx' = [cx EXCEPT !.chunks = Tail(@), !.count = @ + 1]
                 ELSE /\ cx' = [cx EXCEPT !.chunks = Tail(@), !.count = @ + 1,
                                          !.pending = @ \cup {<<id, context>>}]
                      /\ UNCHANGED chunks
              /\ cxRuns' = [cxRuns EXCEPT
                              ![Len(cxRuns)].generated = Append(@, <<id, context>>),
                              ![Len(cxRuns)].after = chunks',
                              ![Len(cxRuns)].llmAfter = llmCalls']
           \/ /\ Fault
              /\ cx' = CxIdle
              /\ UNCHANGED chunks
              /\ cxRuns' = [cxRuns EXCEPT ![Len(cxRuns)].end = "raised",
                                          ![Len(cxRuns)].llmAfter = llmCalls']
    /\ UNCHANGED <<chat, ex, up>>
    /\ UNCHANGED <<rc, ix, pinecone, opsStarted, rechunked, indexRuns>>
    /\ UNCHANGED <<company_resources, documents, s3, nextId, runners, proc, histVars>>

\* a return value that counts the Chunks of the table
CtxReturnChunkTotal(c) == Cardinality(chunks)

\* return count (the size of the results dict in
\* process_all_chunks_for_document, one key per chunk of the loop)
CtxReturn(c) == c.count

\* after the loop: update_chunk_contexts_in_db commits once, then both
\* methods return
CtxFinish ==
    /\ cx.pc = "loop"
    /\ cx.chunks = <<>>
    /\ cx' = CxIdle
    /\ IF cx.method = "update_chunk_contexts_in_db"
       THEN \/ /\ chunks' = WithContexts(chunks, cx.pending)
               /\ cxRuns' = [cxRuns EXCEPT ![Len(cxRuns)].end = "returned",
                                           ![Len(cxRuns)].returned = CtxReturn(cx),
                                           ![Len(cxRuns)].after = chunks']
               /\ NoFault
            \/ /\ Fault
               /\ cxRuns' = [cxRuns EXCEPT ![Len(cxRuns)].end = "raised"]
               /\ UNCHANGED chunks
       ELSE /\ NoFault
            /\ cxRuns' = [cxRuns EXCEPT ![Len(cxRuns)].end = "returned",
                                        ![Len(cxRuns)].returned = CtxReturn(cx)]
            /\ UNCHANGED chunks
    /\ UNCHANGED <<chat, ex, up>>
    /\ UNCHANGED <<rc, ix, pinecone, opsStarted, rechunked, llmCalls, indexRuns>>
    /\ UNCHANGED <<company_resources, documents, s3, nextId, runners, proc, histVars>>

(***************************************************************************)
(* ingest_chunks_to_pinecone.  A path is the sequence of its pieces, a     *)
(* LIKE pattern %p% the sequence of the pieces of p; a record of the index *)
(* is the document handed to PineconeVectorStore.from_documents under the  *)
(* id the vector store gives it.                                           *)
(***************************************************************************)
\* batch_size
BatchSize == 100

\* os.environ.get('PINECONE_INDEX_NAME')
IndexName == "index"

\* the empty string, as a path
EmptyPath == [domain |-> <<>>, path |-> 0]

\* the characters of a file_path: the labels of its host, then its key
PathString(file_path) ==
    [j \in 1 .. Len(file_path.domain) |-> [seg |-> file_path.domain[j]]]
      \o (IF file_path.path = 0 THEN <<>> ELSE <<[key |-> file_path.path]>>)

\* the exclude_path of the signature, "/path/to/exclude"
DefaultExcludePath == <<[seg |-> "path"], [seg |-> "to"], [seg |-> "exclude"]>>

\* one piece of a LIKE pattern against one piece of a string: _ matches any
LikePiece(p, s) == p = [wild |-> "_"] \/ p = s

\* Document.file_path.like(f"%{exclude_path}%"); NULL matches nothing
Like(file_path, exclude_path) ==
    /\ file_path # None
    /\ LET s == PathString(file_path)
       IN  \E k \in 0 .. Len(s) :
              /\ k + Len(exclude_path) <= Len(s)
              /\ \A j \in 1 .. Len(exclude_path) : LikePiece(exclude_path[j], s[k + j])

\* the ids of S in ascending order
IdsInOrder(S) == SelectSeq([j \in 1 .. nextId - 1 |-> j], LAMBDA j : j \in S)

\* the rows of a query result, as a list
RowsInOrder(rows) ==
    LET ids == IdsInOrder({c.id : c \in rows})
    IN  [j \in 1 .. Len(ids) |-> CHOOSE c \in rows : c.id = ids[j]]

\* the query of the excluded documents
ExcludedDocIds(exclude_path) ==
    {d.id : d \in {x \in documents : Like(x.file_path, exclude_path)}}

\* the query of the chunks without its filter
AllChunks(exclude_path) == chunks

\* the query of the chunks: notin_(excluded_doc_ids) if excluded_doc_ids else True
SelectedChunks(exclude_path) ==
    LET excluded_doc_ids == ExcludedDocIds(exclude_path)
    IN  IF excluded_doc_ids # {}
        THEN {c \in chunks : c.document_id \notin excluded_doc_ids}
        ELSE chunks

\* what an f-string makes of chunk.context
FormatContext(context) == IF context = None THEN [lit |-> "None"] ELSE context

\* f"Context: {chunk.context}\n\nContent: {chunk.text}"
Content(chunk) ==
    <<[lit |-> "Context: "], FormatContext(chunk.context), [lit |-> "\n\n"],
      [lit |-> "Content: "], [text |-> chunk.text]>>

\* the metadata dict without the "or 0" of page_number
MetadataNoDefault(chunk, document) ==
    [chunk_id |-> Str(chunk.id),
     document_id |-> Str(document.id),
     company_id |-> Str(document.company_id),
     file_path |-> IF document.file_path = None THEN EmptyPath ELSE document.file_path,
     page_number |-> document.page_number]

\* the metadata dict of a chunk and its parent document
Metadata(chunk, document) ==
    [chunk_id |-> Str(chunk.id),
     document_id |-> Str(document.id),
     company_id |-> Str(document.company_id),
     file_path |-> IF document.file_path = None THEN EmptyPath ELSE document.file_path,
     page_number |-> IF document.page_number = NullInt THEN 0 ELSE document.page_number]

LangchainDocument(chunk, document) ==
    [page_content |-> Content(chunk), metadata |-> Metadata(chunk, document)]

\* the loop over the selected chunks, left at the first chunk whose parent
\* document is not found
PrepareDocsUntilMissing(rows) ==
    LET missing == {j \in 1 .. Len(rows) :
                      ~ \E d \in documents : d.id = rows[j].document_id}
        kept == SubSeq(rows, 1, IF missing = {} THEN Len(rows)
                                ELSE (CHOOSE j \in missing : \A k \in missing : j <= k) - 1)
    IN  [j \in 1 .. Len(kept) |->
           LangchainDocument(kept[j], DocumentById(kept[j].document_id))]

\* the loop over the selected chunks: a chunk whose parent document is not
\* found is left out
PrepareDocs(rows) ==
    LET kept == SelectSeq(rows, LAMBDA chunk :
                            \E d \in documents : d.id = chunk.document_id)
    IN  [j \in 1 .. Len(kept) |->
           LangchainDocument(kept[j], DocumentById(kept[j].document_id))]

\* langchain_docs[i:i+batch_size+1]
BatchOneMore(langchain_docs, i) ==
    SubSeq(langchain_docs, i + 1,
           IF i + BatchSize + 1 < Len(langchain_docs) THEN i + BatchSize + 1
           ELSE Len(langchain_docs))

\* langchain_docs[i:i+batch_size]
Batch(langchain_docs, i) ==
    SubSeq(langchain_docs, i + 1,
           IF i + BatchSize < Len(langchain_docs) THEN i + BatchSize
           ELSE Len(langchain_docs))

\* the record of a run in the history
NewIndexRun(exclude_path, rows) ==
    [exclude_path |-> exclude_path, docsAtQuery |-> documents,
     chunksAtQuery |-> chunks, selected |-> rows,
     existed |-> "unchecked", creates |-> 0, upsertsAtCreate |-> 0,
     prepared |-> <<>>, preparedDone |-> FALSE, docsAtPrepare |-> {},
     upserts |-> <<>>, end |-> "running"]

\* the two queries of the run
IndexStart(exclude_path) ==
    /\ ScriptsIdle
    /\ ScriptsStarted < MaxOps
    /\ opsStarted' = opsStarted + 1
    /\ LET rows == RowsInOrder(SelectedChunks(exclude_path))
       IN  /\ ix' = [pc |-> "ensure", run |-> Len(indexRuns) + 1, chunks |-> rows,
                     langchain_docs |-> <<>>, i |-> 0]
           /\ indexRuns' = Append(indexRuns, NewIndexRun(exclude_path, rows))
    /\ UNCHANGED <<cxRuns, chat, ex, up>>
    /\ UNCHANGED <<rc, cx, pinecone, rechunked, llmCalls>>
    /\ UNCHANGED <<dbVars, s3, nextId, runners, faults, proc, histVars>>

\* the run ends on an exception
IndexRaise ==
    /\ Fault
    /\ ix' = IxIdle
    /\ indexRuns' = [indexRuns EXCEPT ![ix.run].end = "raised"]

\* create_index without the check of list_indexes().names()
EnsureIndexUnchecked ==
    /\ ix.pc = "ensure"
    /\ \/ /\ pinecone' = [pinecone EXCEPT !.indexes = @ \cup {IndexName}]
          /\ ix' = [ix EXCEPT !.pc = "prepare"]
          /\ indexRuns' = [indexRuns EXCEPT
                             ![ix.run].existed = IF IndexName \in pinecone.indexes
                                                 THEN "yes" ELSE "no",
                             ![ix.run].creates = @ + 1,
                             ![ix.run].upsertsAtCreate = Len(indexRuns[ix.run].upserts)]
          /\ NoFault
       \/ /\ IndexRaise
          /\ UNCHANGED pinecone
    /\ UNCHANGED <<cxRuns, chat, ex, up>>
    /\ UNCHANGED <<rc, cx, opsStarted, rechunked, llmCalls>>
    /\ UNCHANGED <<dbVars, s3, nextId, runners, proc, histVars>>

\* the check of list_indexes().names() and create_index
EnsureIndex ==
    /\ ix.pc = "ensure"
    /\ IF IndexName \notin pinecone.indexes
       THEN \/ /\ pinecone' = [pinecone EXCEPT !.indexes = @ \cup {IndexName}]
               /\ ix' = [ix EXCEPT !.pc = "prepare"]
               /\ indexRuns' = [indexRuns EXCEPT
                                  ![ix.run].existed = "no",
                                  ![ix.run].creates = @ + 1,
                                  ![ix.run].upsertsAtCreate = Len(indexRuns[ix.run].upserts)]
               /\ NoFault
            \/ /\ IndexRaise
               /\ UNCHANGED pinecone
       ELSE /\ ix' = [ix EXCEPT !.pc = "prepare"]
            /\ indexRuns' = [indexRuns EXCEPT ![ix.run].existed = "yes"]
            /\ NoFault
            /\ UNCHANGED pinecone
    /\ UNCHANGED <<cxRuns, chat, ex, up>>
    /\ UNCHANGED <<rc, cx, opsStarted, rechunked, llmCalls>>
    /\ UNCHANGED <<dbVars, s3, nextId, runners, proc, histVars>>

\* the loop that converts the chunks to Langchain documents
Prepare ==
    /\ ix.pc = "prepare"
    /\ LET langchain_docs == PrepareDocs(ix.chunks)
       IN  /\ ix' = [ix EXCEPT !.pc = "store", !.langchain_docs = langchain_docs, !.i = 0]
           /\ indexRuns' = [indexRuns EXCEPT ![ix.run].prepared = langchain_docs,
                                             ![ix.run].preparedDone = TRUE,
                                             ![ix.run].docsAtPrepare = documents]
    /\ UNCHANGED <<cxRuns, chat, ex, up>>
    /\ UNCHANGED <<rc, cx, pinecone, opsStarted, rechunked, llmCalls>>
    /\ UNCHANGED <<dbVars, s3, nextId, runners, faults, proc, histVars>>

\* a variant that writes into the rows of the chunks it has stored
StoreBatchMarking ==
    /\ ix.pc = "store"
    /\ ix.i < Len(ix.langchain_docs)
    /\ LET batch == Batch(ix.langchain_docs, ix.i)
       IN  \/ /\ pinecone' = [pinecone EXCEPT !.vectors = @ \cup
                     { [id |-> nextId + j - 1, page_content |-> batch[j].page_content,
                        metadata |-> batch[j].metadata] : j \in 1 .. Len(batch) }]
              /\ nextId' = nextId + Len(batch)
              /\ ix' = [ix EXCEPT !.i = @ + BatchSize]
              /\ indexRuns' = [indexRuns EXCEPT ![ix.run].upserts = Append(@, batch)]
              /\ chunks' = {[c EXCEPT !.context = [ctx |-> 0]] : c \in chunks}
              /\ NoFault
           \/ /\ IndexRaise
              /\ UNCHANGED <<pinecone, nextId, chunks>>
    /\ UNCHANGED <<cxRuns, chat, ex, up>>
    /\ UNCHANGED <<rc, cx, opsStarted, rechunked, llmCalls>>
    /\ UNCHANGED <<company_resources, documents, s3, runners, proc, histVars>>

\* one batch of the loop: PineconeVectorStore.from_documents stores each
\* document under a fresh uuid4
StoreBatch ==
    /\ ix.pc = "store"
    /\ ix.i < Len(ix.langchain_docs)
    /\ LET batch == Batch(ix.langchain_docs, ix.i)
       IN  \/ /\ pinecone' = [pinecone EXCEPT !.vectors = @ \cup
                     { [id |-> nextId + j - 1, page_content |-> batch[j].page_content,
                        metadata |-> batch[j].metadata] : j \in 1 .. Len(batch) }]
              /\ nextId' = nextId + Len(batch)
              /\ ix' = [ix EXCEPT !.i = @ + BatchSize]
              /\ indexRuns' = [indexRuns EXCEPT ![ix.run].upserts = Append(@, batch)]
              /\ NoFault
           \/ /\ IndexRaise
              /\ UNCHANGED <<pinecone, nextId>>
    /\ UNCHANGED <<cxRuns, chat, ex, up>>
    /\ UNCHANGED <<rc, cx, opsStarted, rechunked, llmCalls>>
    /\ UNCHANGED <<dbVars, s3, runners, proc, histVars>>

\* the batches are through: finally db.close()
IndexFinish ==
    /\ ix.pc = "store"
    /\ ix.i >= Len(ix.langchain_docs)
    /\ ix' = IxIdle
    /\ indexRuns' = [indexRuns EXCEPT ![ix.run].end = "returned"]
    /\ UNCHANGED <<cxRuns, chat, ex, up>>
    /\ UNCHANGED <<rc, cx, pinecone, opsStarted, rechunked, llmCalls>>
    /\ UNCHANGED <<dbVars, s3, nextId, runners, faults, proc, histVars>>

\* another session deletes a document; its chunks go with it (ON DELETE CASCADE)
DeleteDocument ==
    /\ Fault
    /\ \E id \in {d.id : d \in documents} :
          /\ documents' = {d \in documents : d.id # id}
          /\ chunks' = {c \in chunks : c.document_id # id}
    /\ UNCHANGED opVars
    /\ UNCHANGED <<company_resources, s3, nextId, runners, proc, histVars>>

(***************************************************************************)
(* The store under all four scripts: one resource to ingest, and one       *)
(* document of an earlier import that has no chunks, no page number, no    *)
(* file path and no resource.                                              *)
(***************************************************************************)
LegacyDocument ==
    [id |-> 1, company_id |-> CompanyOf(1), resource_id |-> NullInt,
     text |-> TextShort, page_number |-> NullInt, file_path |-> None]

\* the exclude_path values the indexer is run with: one that matches no
\* path, the key of resource 1, and one that matches every URL
ExcludePaths ==
    { DefaultExcludePath, <<[key |-> KeyOf(1)]>>, <<[seg |-> "s3"], [wild |-> "_"]>> }

InitPipeline ==
    /\ company_resources = [k \in {1} |-> [id |-> k, company_id |-> CompanyOf(k),
                                            resource_location |-> UrlOf(k),
                                            is_ingested |-> FALSE]]
    /\ documents = {LegacyDocument}
    /\ chunks = {}
    /\ s3 = [x \in {<<BucketOf(1), KeyOf(1)>>} |->
               [magic |-> PdfMagic, pages |-> <<TextLong, TextBlank, TextEmpty>>,
                readable |-> TRUE]]
    /\ nextId = 2
    /\ InitHistory
    /\ InitOps
    /\ runners = {1}
    /\ faults = 0
    /\ proc = [r \in AllRunners |-> Idle]

NextPipeline ==
    \/ \E r \in AllRunners :
          \/ StartRunAlone(r)
          \/ FetchResource(r)
          \/ LoadPdf(r)
          \/ AddDocument(r)
          \/ AddChunks(r)
          \/ MarkIngested(r)
          \/ FinishRun(r)
          \/ Crash(r)
    \/ RechunkStart
    \/ RechunkDocument
    \/ RechunkChunks
    \/ RechunkFinish
    \/ CtxStart
    \/ CtxChunk
    \/ CtxFinish
    \/ \E exclude_path \in ExcludePaths : IndexStart(exclude_path)
    \/ EnsureIndex
    \/ Prepare
    \/ StoreBatch
    \/ IndexFinish

SpecPipeline == InitPipeline /\ [][NextPipeline]_vars

(***************************************************************************)
(* The indexer over a store that is already filled.                        *)
(***************************************************************************)
\* number of full batches the large store fills
MaxBatches == 2

\* a small store: a document of resource 1 with a contextualised and a bare
\* chunk, a document without file_path and page_number, a re-chunked one
SmallDocuments ==
    { [id |-> 1, company_id |-> CompanyOf(1), resource_id |-> 1,
       text |-> TextLong, page_number |-> 1, file_path |-> UrlOf(1)],
      [id |-> 2, company_id |-> CompanyOf(2), resource_id |-> NullInt,
       text |-> TextShort, page_number |-> NullInt, file_path |-> None],
      [id |-> 3, company_id |-> CompanyOf(2), resource_id |-> NullInt,
       text |-> TextShort, page_number |-> 0, file_path |-> UnknownPath] }

SmallChunks ==
    { [id |-> 4, document_id |-> 1, company_id |-> CompanyOf(1),
       text |-> <<600>>, context |-> [ctx |-> 0]],
      [id |-> 5, document_id |-> 1, company_id |-> CompanyOf(1),
       text |-> <<600>>, context |-> None],
      [id |-> 6, document_id |-> 2, company_id |-> CompanyOf(2),
       text |-> TextShort, context |-> None],
      [id |-> 7, document_id |-> 3, company_id |-> CompanyOf(2),
       text |-> TextShort, context |-> [ctx |-> 0]] }

\* a large store: one chunk of a page of resource 1, and MaxBatches full
\* batches of chunks of a page of resource 2
LargeDocuments ==
    { [id |-> k, company_id |-> CompanyOf(k), resource_id |-> k,
       text |-> TextShort, page_number |-> 1, file_path |-> UrlOf(k)] : k \in {1, 2} }

LargeChunks ==
    { [id |-> 3, document_id |-> 1, company_id |-> CompanyOf(1),
       text |-> TextShort, context |-> None] }
    \cup { [id |-> 3 + j, document_id |-> 2, company_id |-> CompanyOf(2),
            text |-> TextShort, context |-> [ctx |-> 0]] : j \in 1 .. MaxBatches * BatchSize }

\* the state before the indexer runs over a store of these rows
InitIndexed(docs, rows) ==
    /\ company_resources = [k \in {1, 2} |-> [id |-> k, company_id |-> CompanyOf(k),
                                               resource_location |-> UrlOf(k),
                                               is_ingested |-> TRUE]]
    /\ documents = docs
    /\ chunks = rows
    /\ nextId = 1 + Cardinality(docs) + Cardinality(rows)
    /\ s3 = [x \in {<<BucketOf(k), KeyOf(k)>> : k \in {1, 2}} |->
               [magic |-> PdfMagic, pages |-> <<TextShort>>, readable |-> TRUE]]
    /\ InitHistory
    /\ rc = RcIdle
    /\ cx = CxIdle
    /\ ix = IxIdle
    /\ pinecone \in {[indexes |-> n, vectors |-> {}] : n \in {{}, {IndexName}}}
    /\ opsStarted = 0
    /\ rechunked = {}
    /\ llmCalls = 0
    /\ indexRuns = <<>>
    /\ cxRuns = <<>>
    /\ chat = ChatIdle
    /\ ex = ExIdle
    /\ up = UpIdle
    /\ runners = {1}
    /\ faults = 0
    /\ proc = [r \in AllRunners |-> Idle]

InitIndex == InitIndexed(SmallDocuments, SmallChunks)

NextIndex ==
    \/ \E exclude_path \in ExcludePaths : IndexStart(exclude_path)
    \/ EnsureIndex
    \/ Prepare
    \/ StoreBatch
    \/ IndexFinish
    \/ DeleteDocument

SpecIndex == InitIndex /\ [][NextIndex]_vars

\* the contextualiser over the small store
NextContext ==
    \/ CtxStart
    \/ CtxChunk
    \/ CtxFinish

SpecContext == InitIndex /\ [][NextContext]_vars

\* the indexer over the large store
InitBatch == InitIndexed(LargeDocuments, LargeChunks)

NextBatch ==
    \/ \E exclude_path \in ExcludePaths : IndexStart(exclude_path)
    \/ EnsureIndex
    \/ Prepare
    \/ StoreBatch
    \/ IndexFinish

SpecBatch == InitBatch /\ [][NextBatch]_vars

(***************************************************************************)
(* query_vector_store and ChatService.generate_response.  chat holds the   *)
(* locals of the call in progress (or of the last call) and what the call  *)
(* asked of its collaborators: queries are the similarity searches, each   *)
(* with the text it embedded and its k, predicts the message lists handed  *)
(* to the chat model.  A message content is a string; the context message  *)
(* is its header and the wrapped passages in order.                        *)
(***************************************************************************)
SystemPrompt == "system_prompt"
ResponseContent == "response"
GenerateTopK == 3
DefaultTopK == 5

\* the content of the last message, whatever its role
LatestMessage(messages) ==
    IF messages = <<>> THEN None ELSE Str(messages[Len(messages)].content)

\* the latest user message: the content of the last message of role user,
\* None when there is none.  A variable that holds a string or None holds
\* the string s as [str |-> s].
LatestUserMessage(messages) ==
    LET users == {j \in 1 .. Len(messages) : messages[j].role = "user"}
    IN  IF users = {} THEN None
        ELSE Str(messages[CHOOSE j \in users : \A k \in users : k <= j].content)

\* if latest_user_message: None and the empty string are false
IsTruthy(latest_user_message) ==
    IF latest_user_message = None THEN FALSE ELSE latest_user_message.str # ""

\* a search that asks for the default number of results
SearchKDefault(top_k) == DefaultTopK

\* k=top_k
SearchK(top_k) == top_k

\* the Document the vector store makes of a record
Passage(v) == [page_content |-> v.page_content, metadata |-> v.metadata]

\* the lists of m different records of S
RECURSIVE Arrangements(_, _)
Arrangements(S, m) ==
    IF m = 0 THEN {<<>>}
    ELSE UNION { { <<v>> \o t : t \in Arrangements(S \ {v}, m - 1) } : v \in S }

\* similarity_search(query, k) for k >= 1: the k nearest records of the index,
\* or all of them when there are fewer, nearest first; which ones are nearest
\* is up to the embedding of the query
SimilaritySearch(k) ==
    LET n == Cardinality(pinecone.vectors)
        found == Arrangements(pinecone.vectors, IF k < n THEN k ELSE n)
    IN  { [j \in 1 .. Len(t) |-> Passage(t[j])] : t \in found }

\* doc.metadata.get(key): None for a key the dict does not have
Get(metadata, key) ==
    IF key \in DOMAIN metadata THEN metadata[key]
    ELSE IF key = "page_number" THEN NullInt ELSE None

\* the entry of doc_metadata for a retrieved document
DocMetadata(doc) ==
    [chunk_id |-> Get(doc.metadata, "chunk_id"),
     document_id |-> Get(doc.metadata, "document_id"),
     company_id |-> Get(doc.metadata, "company_id"),
     file_path |-> Get(doc.metadata, "file_path"),
     page_number |-> Get(doc.metadata, "page_number")]

\* SystemMessage(content=vector_context_text): the header and, for each
\* document of vector_results, f"---\n{doc.page_content}\n---\n"
ContextMessage(vector_results) ==
    [type |-> "system", content |-> "Context from knowledge base:\n\n",
     passages |-> [j \in 1 .. Len(vector_results) |-> vector_results[j].page_content]]

\* the messages of the history in LangChain format: user and assistant
\* messages, any other role is left out
Converted(messages) ==
    LET kept == SelectSeq(messages, LAMBDA msg : msg.role \in {"user", "assistant"})
    IN  [j \in 1 .. Len(kept) |->
           [type |-> IF kept[j].role = "user" THEN "human" ELSE "ai",
            content |-> kept[j].content]]

\* langchain_messages
LangchainMessages(vector_context, messages) ==
    <<[type |-> "system", content |-> SystemPrompt]>> \o vector_context \o Converted(messages)

\* generate_response is called: the search for the latest user message
ChatCall(messages) ==
    /\ chat.pc = "idle"
    /\ LET latest_user_message == LatestUserMessage(messages)
       IN  chat' = IF IsTruthy(latest_user_message)
                   THEN [ChatIdle EXCEPT !.pc = "retrieve", !.call = "generate_response",
                                         !.messages = messages,
                                         !.query_text = latest_user_message,
                                         !.top_k = GenerateTopK]
                   ELSE [ChatIdle EXCEPT !.pc = "predict", !.call = "generate_response",
                                         !.messages = messages]
    /\ UNCHANGED <<rc, cx, ix, pinecone, opsStarted, rechunked, llmCalls, indexRuns, cxRuns, ex, up>>
    /\ UNCHANGED <<dbVars, s3, nextId, runners, faults, proc, histVars>>

\* query_vector_store is called by ask_question
QueryCall(query_text, top_k) ==
    /\ chat.pc = "idle"
    /\ chat' = [ChatIdle EXCEPT !.pc = "retrieve", !.call = "query_vector_store",
                                !.query_text = query_text, !.top_k = top_k]
    /\ UNCHANGED <<rc, cx, ix, pinecone, opsStarted, rechunked, llmCalls, indexRuns, cxRuns, ex, up>>
    /\ UNCHANGED <<dbVars, s3, nextId, runners, faults, proc, histVars>>

\* the search has its results: query_vector_store returns them to its caller
Retrieved(results) ==
    chat' = [chat EXCEPT
               !.queries = Append(@, [query_text |-> chat.query_text,
                                      k |-> SearchK(chat.top_k)]),
               !.retrieved = "returned",
               !.vector_results = results,
               !.pc = IF chat.call = "generate_response" THEN "context" ELSE "idle",
               !.result = IF chat.call = "generate_response" THEN "none" ELSE "returned",
               !.returned = IF chat.call = "generate_response" THEN None ELSE results]

\* the search raises and the caller goes on as if nothing had been found
RetrieveRaiseCaught ==
    chat' = [chat EXCEPT
               !.queries = Append(@, [query_text |-> chat.query_text,
                                      k |-> SearchK(chat.top_k)]),
               !.retrieved = "raised",
               !.pc = IF chat.call = "generate_response" THEN "context" ELSE "idle",
               !.result = IF chat.call = "generate_response" THEN "none" ELSE "returned",
               !.returned = IF chat.call = "generate_response" THEN None ELSE <<>>]

\* the search raises, and nothing catches it
RetrieveRaise ==
    chat' = [chat EXCEPT
               !.queries = Append(@, [query_text |-> chat.query_text,
                                      k |-> SearchK(chat.top_k)]),
               !.retrieved = "raised", !.pc = "idle", !.result = "raised"]

\* the body of query_vector_store: the embeddings model, the vector store and
\* similarity_search(query=query_text, k=top_k), which embeds the query and
\* queries the index.  What the vector store does with a k below 1 is the
\* library's: it raises or it finds nothing.
QueryVectorStore ==
    /\ chat.pc = "retrieve"
    /\ \/ /\ Fault
          /\ RetrieveRaise
       \/ /\ NoFault
          /\ IF SearchK(chat.top_k) >= 1
             THEN \E results \in SimilaritySearch(SearchK(chat.top_k)) : Retrieved(results)
             ELSE Retrieved(<<>>) \/ RetrieveRaise
    /\ UNCHANGED <<rc, cx, ix, pinecone, opsStarted, rechunked, llmCalls, indexRuns, cxRuns, ex, up>>
    /\ UNCHANGED <<dbVars, s3, nextId, runners, proc, histVars>>

\* if vector_results: the context message and the entries of doc_metadata
BuildContext ==
    /\ chat.pc = "context"
    /\ chat' = IF chat.vector_results # <<>>
               THEN [chat EXCEPT
                       !.pc = "predict",
                       !.vector_context = <<ContextMessage(chat.vector_results)>>,
                       !.doc_metadata = [j \in 1 .. Len(chat.vector_results) |->
                                           DocMetadata(chat.vector_results[j])]]
               ELSE [chat EXCEPT !.pc = "predict"]
    /\ UNCHANGED <<rc, cx, ix, pinecone, opsStarted, rechunked, llmCalls, indexRuns, cxRuns, ex, up>>
    /\ UNCHANGED <<dbVars, s3, nextId, runners, faults, proc, histVars>>

\* llm.predict_messages(langchain_messages) and the return of the content
\* with doc_metadata
Predict ==
    /\ chat.pc = "predict"
    /\ LET langchain_messages == LangchainMessages(chat.vector_context, chat.messages)
       IN  \/ /\ NoFault
              /\ chat' = [chat EXCEPT !.pc = "idle",
                                      !.predicts = Append(@, langchain_messages),
                                      !.result = "returned",
                                      !.returned = [content |-> ResponseContent,
                                                    metadata |-> chat.doc_metadata]]
           \/ /\ Fault
              /\ chat' = [chat EXCEPT !.pc = "idle",
                                      !.predicts = Append(@, langchain_messages),
                                      !.result = "raised"]
    /\ UNCHANGED <<rc, cx, ix, pinecone, opsStarted, rechunked, llmCalls, indexRuns, cxRuns, ex, up>>
    /\ UNCHANGED <<dbVars, s3, nextId, runners, proc, histVars>>

(***************************************************************************)
(* The chat service and the retriever over an index that is empty, that    *)
(* the indexer filled in one run or in two, or that also holds a record    *)
(* whose metadata has no page_number.                                      *)
(***************************************************************************)
\* the conversation histories of the calls
Histories ==
    { <<>>,
      <<[role |-> "user", content |-> "q1"]>>,
      <<[role |-> "user", content |-> ""]>>,
      <<[role |-> "assistant", content |-> "a1"]>>,
      <<[role |-> "system", content |-> "s1"], [role |-> "assistant", content |-> "a1"]>>,
      <<[role |-> "user", content |-> "q1"], [role |-> "assistant", content |-> "a1"]>>,
      <<[role |-> "user", content |-> "q1"], [role |-> "assistant", content |-> "a1"],
        [role |-> "user", content |-> "q2"]>>,
      <<[role |-> "user", content |-> "q1"], [role |-> "assistant", content |-> "a1"],
        [role |-> "user", content |-> ""]>> }

\* the numbers of results asked of ask_question
TopKs == {-1, 0, 1, DefaultTopK}

\* the path the indexer runs excluded
ChatExcludePath == <<[key |-> KeyOf(1)]>>

\* the records a run of the indexer stores, under ids from first on
RecordsOfRun(first) ==
    LET langchain_docs == PrepareDocs(RowsInOrder(SelectedChunks(ChatExcludePath)))
    IN  { [id |-> first + j - 1, page_content |-> langchain_docs[j].page_content,
           metadata |-> langchain_docs[j].metadata] : j \in 1 .. Len(langchain_docs) }

\* a record of the index with no page_number in its metadata
RecordWithoutPageNumber ==
    [id |-> nextId, page_content |-> <<[lit |-> "Content: "], [text |-> TextShort]>>,
     metadata |-> [chunk_id |-> Str(7), document_id |-> Str(3),
                   company_id |-> Str(CompanyOf(2)), file_path |-> UnknownPath]]

IndexContents ==
    LET once == RecordsOfRun(nextId)
    IN  { {},
          once,
          once \cup RecordsOfRun(nextId + Cardinality(once)),
          RecordsOfRun(nextId + 1) \cup {RecordWithoutPageNumber} }

InitChat ==
    /\ company_resources = [k \in {1, 2} |-> [id |-> k, company_id |-> CompanyOf(k),
                                               resource_location |-> UrlOf(k),
                                               is_ingested |-> TRUE]]
    /\ documents = SmallDocuments
    /\ chunks = SmallChunks
    /\ nextId = 1 + Cardinality(SmallDocuments) + Cardinality(SmallChunks)
    /\ s3 = [x \in {<<BucketOf(k), KeyOf(k)>> : k \in {1, 2}} |->
               [magic |-> PdfMagic, pages |-> <<TextShort>>, readable |-> TRUE]]
    /\ InitHistory
    /\ rc = RcIdle
    /\ cx = CxIdle
    /\ ix = IxIdle
    /\ pinecone \in {[indexes |-> {IndexName}, vectors |-> v] : v \in IndexContents}
    /\ opsStarted = 0
    /\ rechunked = {}
    /\ llmCalls = 0
    /\ indexRuns = <<>>
    /\ cxRuns = <<>>
    /\ chat = ChatIdle
    /\ ex = ExIdle
    /\ up = UpIdle
    /\ runners = {1}
    /\ faults = 0
    /\ proc = [r \in AllRunners |-> Idle]

NextChat ==
    \/ \E messages \in Histories : ChatCall(messages)
    \/ \E top_k \in TopKs : QueryCall(Str("q1"), top_k)
    \/ QueryVectorStore
    \/ BuildContext
    \/ Predict

SpecChat == InitChat /\ [][NextChat]_vars

(***************************************************************************)
(* extract_pdf_to_document_db: the pages of a local PDF become Documents   *)
(* and Chunks.  A local file is named by its number; file 0 does not       *)
(* exist.  ex keeps the locals of the call and the ids of the Documents it *)
(* created.                                                                *)
(***************************************************************************)
\* chunk_overlap default of extract_pdf_to_document_db
ExtractChunkOverlap == 30

\* the company_id written into every row
ExtractCompanyId == CompanyOf(1)

\* len(text): the characters of the lines and the newlines between them
RECURSIVE Chars(_)
Chars(text) ==
    IF text = <<>> THEN 0
    ELSE Abs(Head(text)) + (IF Len(text) > 1 THEN SeparatorLen ELSE 0) + Chars(Tail(text))

\* page texts of 2500 characters: without a newline, with one, with two, with
\* four, with an empty line, with trailing blanks, and blanks only
PageTexts ==
    << <<2500>>, <<1249, 1250>>, <<832, 833, 833>>, <<499, 500, 499, 500, 498>>,
       <<999, 0, 998, 500>>, <<2000, -499>>, <<-2500>> >>

\* the local PDFs: two pages each, the texts above as page 1
LocalPdf(pdf_path) == <<PageTexts[pdf_path], TextShort>>

\* os.path.exists(pdf_path)
Exists(pdf_path) == pdf_path \in 1 .. Len(PageTexts)

\* the path of a local file, as a file_path
LocalPath(pdf_path) == [domain |-> <<"local">>, path |-> pdf_path]

\* the call: the existence check and PyPDFLoader(pdf_path).load()
ExtractStart(pdf_path) ==
    /\ ScriptsIdle
    /\ ex.pc = "idle"
    /\ ScriptsStarted < MaxOps
    /\ opsStarted' = opsStarted + 1
    /\ IF ~Exists(pdf_path)
       THEN /\ ex' = [ExIdle EXCEPT !.pdf_path = pdf_path, !.end = "raised"]
            /\ NoFault
       ELSE \/ /\ ex' = [ExIdle EXCEPT !.pc = "document", !.pdf_path = pdf_path,
                                       !.pages = LocalPdf(pdf_path), !.end = "running"]
               /\ NoFault
            \/ /\ Fault
               /\ ex' = [ExIdle EXCEPT !.pdf_path = pdf_path, !.end = "raised"]
    /\ UNCHANGED <<rc, cx, ix, pinecone, rechunked, llmCalls, indexRuns, cxRuns, chat, up>>
    /\ UNCHANGED <<dbVars, s3, nextId, runners, proc, histVars>>

\* the Document of page i + 1 and its commit
ExtractDocument ==
    /\ ex.pc = "document"
    /\ ex.i < Len(ex.pages)
    /\ LET document == [id |-> nextId,
                        company_id |-> ExtractCompanyId,
                        resource_id |-> NullInt,
                        text |-> ex.pages[ex.i + 1],
                        page_number |-> ex.i + 1,
                        file_path |-> LocalPath(ex.pdf_path)]
       IN  \/ /\ documents' = documents \cup {document}
              /\ nextId' = nextId + 1
              /\ ex' = [ex EXCEPT !.pc = "chunks", !.document = document,
                                  !.docs = @ \cup {document.id}]
              /\ NoFault
           \/ /\ Fault
              /\ ex' = [ex EXCEPT !.pc = "idle", !.end = "raised"]
              /\ UNCHANGED <<documents, nextId>>
    /\ UNCHANGED <<rc, cx, ix, pinecone, opsStarted, rechunked, llmCalls, indexRuns,
                   cxRuns, chat, up>>
    /\ UNCHANGED <<company_resources, chunks, s3, runners, proc, histVars>>

\* split_text of the page, its Chunk rows and their commit
ExtractChunks ==
    /\ ex.pc = "chunks"
    /\ LET text_chunks == split_text(ex.pages[ex.i + 1], DefaultChunkSize,
                                     ExtractChunkOverlap)
           new == {[id |-> nextId + n - 1,
                    document_id |-> ex.document.id,
                    company_id |-> ExtractCompanyId,
                    text |-> text_chunks[n],
                    context |-> None] : n \in 1 .. Len(text_chunks)}
       IN  \/ /\ chunks' = chunks \cup new
              /\ nextId' = nextId + Len(text_chunks)
              /\ ex' = [ex EXCEPT !.pc = "document", !.i = @ + 1, !.document = None]
              /\ NoFault
           \/ /\ Fault
              /\ ex' = [ex EXCEPT !.pc = "idle", !.end = "raised"]
              /\ UNCHANGED <<chunks, nextId>>
    /\ UNCHANGED <<rc, cx, ix, pinecone, opsStarted, rechunked, llmCalls, indexRuns,
                   cxRuns, chat, up>>
    /\ UNCHANGED <<company_resources, documents, s3, runners, proc, histVars>>

\* the pages are through: finally db.close()
ExtractFinish ==
    /\ ex.pc = "document"
    /\ ex.i = Len(ex.pages)
    /\ ex' = [ex EXCEPT !.pc = "idle", !.end = "returned"]
    /\ UNCHANGED <<rc, cx, ix, pinecone, opsStarted, rechunked, llmCalls, indexRuns,
                   cxRuns, chat, up>>
    /\ UNCHANGED <<dbVars, s3, nextId, runners, faults, proc, histVars>>

\* the extractor over an empty store
InitExtract ==
    /\ company_resources = [k \in {1} |-> [id |-> k, company_id |-> CompanyOf(k),
                                            resource_location |-> UrlOf(k),
                                            is_ingested |-> FALSE]]
    /\ documents = {}
    /\ chunks = {}
    /\ s3 = [x \in {<<BucketOf(1), KeyOf(1)>>} |->
               [magic |-> PdfMagic, pages |-> <<TextShort>>, readable |-> TRUE]]
    /\ nextId = 1
    /\ InitHistory
    /\ InitOps
    /\ runners = {1}
    /\ faults = 0
    /\ proc = [r \in AllRunners |-> Idle]

NextExtract ==
    \/ \E pdf_path \in 0 .. Len(PageTexts) : ExtractStart(pdf_path)
    \/ ExtractDocument
    \/ ExtractChunks
    \/ ExtractFinish

SpecExtract == InitExtract /\ [][NextExtract]_vars

(***************************************************************************)
(* S3Uploader.upload_files (local_to_s3.py).  A directory is the list of   *)
(* the files os.walk finds in it; a file is a number, and so is its key.   *)
(***************************************************************************)
\* self.company_id and self.bucket_name of the uploader
UploaderCompanyId == CompanyOf(1)
UploaderBucket == BucketOf(1)

\* _get_all_files: the files of the directories that are uploaded
Directories == << <<>>, <<1>>, <<1, 2, 3>> >>
GetAllFiles(local_path) == Directories[local_path]

\* the file names with a character that urllib.parse.quote encodes
QuotedNames == {3}

\* s3_key = f"{self.folder_prefix}/{relative_path}"
S3Key(file_path) == file_path

\* urllib.parse.quote(key): a key above 100 stands for the encoded form
Quote(key) == IF key \in QuotedNames THEN 100 + key ELSE key

\* _format_s3_url
FormatS3Url(bucket, key) ==
    [domain |-> <<bucket, "s3", "region", "amazonaws", "com">>, path |-> Quote(key)]

\* the bytes of the local file
LocalBytes(file_path) == [magic |-> PdfMagic, pages |-> <<TextShort>>, readable |-> TRUE]

\* upload_info and the entries of failed_files and db_failed_files
UploadInfo(file_path) ==
    [local_path |-> file_path, abs_path |-> LocalPath(file_path),
     s3_url |-> FormatS3Url(UploaderBucket, S3Key(file_path))]
FailedInfo(file_path) == [file |-> file_path, error |-> "upload"]
DbFailedInfo(file_path) ==
    [file |-> file_path, abs_path |-> LocalPath(file_path),
     s3_url |-> FormatS3Url(UploaderBucket, S3Key(file_path)),
     error |-> "Failed to record in database"]

\* new_resource = CompanyResource(...) of _record_in_company_resource
NewResource(id, file_path, s3_url) ==
    [id |-> id, company_id |-> AsUuid(Str(UploaderCompanyId)),
     resource_location |-> s3_url, source_location |-> LocalPath(file_path),
     is_ingested |-> FALSE]

\* the report upload_files returns after the loop
Report(u) ==
    [status |-> IF u.failed_files = <<>> /\ u.db_failed_files = <<>>
                THEN "success" ELSE "partial_success",
     uploaded_files |-> u.uploaded_files,
     failed_files |-> u.failed_files,
     db_recorded_files |-> u.db_recorded_files,
     db_failed_files |-> u.db_failed_files,
     total_files |-> Len(u.files),
     successful_uploads |-> Len(u.uploaded_files),
     failed_uploads |-> Len(u.failed_files),
     successful_db_records |-> Len(u.db_recorded_files),
     failed_db_records |-> Len(u.db_failed_files)]

\* the call: files = self._get_all_files(local_path); if not files: return
UploadStart(local_path) ==
    /\ ScriptsIdle
    /\ ex.pc = "idle"
    /\ up.pc = "idle"
    /\ ScriptsStarted < MaxOps
    /\ opsStarted' = opsStarted + 1
    /\ LET files == GetAllFiles(local_path)
       IN  IF files = <<>>
           THEN up' = [UpIdle EXCEPT !.local_path = local_path,
                                     !.report = [status |-> "error"]]
           ELSE up' = [UpIdle EXCEPT !.pc = "loop", !.local_path = local_path,
                                     !.files = files]
    /\ UNCHANGED <<rc, cx, ix, pinecone, rechunked, llmCalls, indexRuns, cxRuns, chat, ex>>
    /\ UNCHANGED <<dbVars, s3, nextId, runners, faults, proc, histVars>>

\* a variant of the loop body that records the row before it uploads
UploadFileRecordFirst ==
    /\ up.pc = "loop"
    /\ up.i < Len(up.files)
    /\ LET file_path == up.files[up.i + 1]
           upload_info == UploadInfo(file_path)
           new_resource == NewResource(nextId, file_path, upload_info.s3_url)
       IN  \E upload_raises, commit_raises \in BOOLEAN :
             /\ IF commit_raises
                THEN UNCHANGED <<company_resources, nextId>>
                ELSE /\ company_resources' = (nextId :> new_resource) @@ company_resources
                     /\ nextId' = nextId + 1
             /\ IF upload_raises
                THEN /\ up' = [up EXCEPT !.i = @ + 1,
                                         !.failed_files = Append(@, FailedInfo(file_path)),
                                         !.rows = IF commit_raises THEN @
                                                  ELSE @ \cup {nextId}]
                     /\ UNCHANGED s3
                ELSE /\ s3' = (<<UploaderBucket, S3Key(file_path)>> :> LocalBytes(file_path))
                                  @@ s3
                     /\ up' = IF commit_raises
                              THEN [up EXCEPT
                                      !.i = @ + 1,
                                      !.uploaded_files = Append(@, upload_info),
                                      !.db_failed_files = Append(@, DbFailedInfo(file_path))]
                              ELSE [up EXCEPT
                                      !.i = @ + 1,
                                      !.uploaded_files = Append(@, upload_info),
                                      !.db_recorded_files = Append(@, upload_info),
                                      !.rows = @ \cup {nextId}]
    /\ UNCHANGED <<rc, cx, ix, pinecone, opsStarted, rechunked, llmCalls, indexRuns,
                   cxRuns, chat, ex>>
    /\ UNCHANGED <<documents, chunks, runners, faults, proc, histVars>>

\* one file of the loop: s3_client.upload_file, uploaded_files.append, then
\* _record_in_company_resource (add and commit; on an exception rollback and
\* False), and the except of the loop body when upload_file raises
UploadFile ==
    /\ up.pc = "loop"
    /\ up.i < Len(up.files)
    /\ LET file_path == up.files[up.i + 1]
           upload_info == UploadInfo(file_path)
           new_resource == NewResource(nextId, file_path, upload_info.s3_url)
       IN  \E upload_raises, commit_raises \in BOOLEAN :
             IF upload_raises
             THEN /\ ~commit_raises
                  /\ up' = [up EXCEPT !.i = @ + 1,
                                      !.failed_files = Append(@, FailedInfo(file_path))]
                  /\ UNCHANGED <<s3, company_resources, nextId>>
             ELSE /\ s3' = (<<UploaderBucket, S3Key(file_path)>> :> LocalBytes(file_path))
                               @@ s3
                  /\ IF commit_raises
                     THEN /\ up' = [up EXCEPT
                                      !.i = @ + 1,
                                      !.uploaded_files = Append(@, upload_info),
                                      !.db_failed_files = Append(@, DbFailedInfo(file_path))]
                          /\ UNCHANGED <<company_resources, nextId>>
                     ELSE /\ company_resources' =
                                 (nextId :> new_resource) @@ company_resources
                          /\ nextId' = nextId + 1
                          /\ up' = [up EXCEPT
                                      !.i = @ + 1,
                                      !.uploaded_files = Append(@, upload_info),
                                      !.db_recorded_files = Append(@, upload_info),
                                      !.rows = @ \cup {nextId}]
    /\ UNCHANGED <<rc, cx, ix, pinecone, opsStarted, rechunked, llmCalls, indexRuns,
                   cxRuns, chat, ex>>
    /\ UNCHANGED <<documents, chunks, runners, faults, proc, histVars>>

\* the loop is over: the report is returned
UploadFinish ==
    /\ up.pc = "loop"
    /\ up.i >= Len(up.files)
    /\ up' = [up EXCEPT !.pc = "idle", !.report = Report(up)]
    /\ UNCHANGED <<rc, cx, ix, pinecone, opsStarted, rechunked, llmCalls, indexRuns,
                   cxRuns, chat, ex>>
    /\ UNCHANGED <<dbVars, s3, nextId, runners, faults, proc, histVars>>

\* the uploader over a store without resources and a bucket without objects
InitUpload ==
    /\ company_resources = <<>>
    /\ documents = {}
    /\ chunks = {}
    /\ s3 = <<>>
    /\ nextId = 1
    /\ InitHistory
    /\ InitOps
    /\ runners = {1}
    /\ faults = 0
    /\ proc = [r \in AllRunners |-> Idle]

NextUpload ==
    \/ \E local_path \in 1 .. Len(Directories) : UploadStart(local_path)
    \/ UploadFile
    \/ UploadFinish

SpecUpload == InitUpload /\ [][NextUpload]_vars

(***************************************************************************)
(* Vocabulary of the properties.                                           *)
(***************************************************************************)
\* the ways the processing of a resource fails in a run
FailureOutcomes ==
    {"fetch_error", "no_content", "extract_error", "persist_error", "mark_error", "killed"}

\* the object a resource points to
ContentOf(res) == s3[ParseS3Url(company_resources[res].resource_location)]

DocsOf(res) == {d \in documents : d.resource_id = res}
ChunksOf(d) == {c \in chunks : c.document_id = d.id}
PageDocs(res, p) == {d \in DocsOf(res) : d.page_number = p}

\* the rows a run created for a resource
CreatedBy(k, res) == {x \in created : x.run = k /\ x.resource = res}

\* the store holds the chunks split from the document's text, and no others
HasItsChunks(d) ==
    LET text_chunks == split_text(d.text, DefaultChunkSize, DefaultChunkOverlap)
    IN  /\ Cardinality(ChunksOf(d)) = Len(text_chunks)
        /\ \A n \in 1 .. Len(text_chunks) : \E c \in ChunksOf(d) : c.text = text_chunks[n]

(***************************************************************************)
(* Properties of batch ingestion.                                          *)
(***************************************************************************)

\* C1: a resource is marked ingested only if its extraction succeeded and, for
\* every page extracted from it, a Document with the page's number and text and
\* the Chunks split from that text are committed.
C1_IngestedOnlyAfterAllPagesPersisted ==
    \A res \in ResourceIds :
        company_resources[res].is_ingested =>
            /\ ContentOf(res).readable
            /\ \A p \in 1 .. Len(ContentOf(res).pages) :
                   \E d \in PageDocs(res, p) :
                       d.text = ContentOf(res).pages[p] /\ HasItsChunks(d)

\* a resource with two pages is marked ingested
C1_Witness ==
    \E res \in ResourceIds :
        company_resources[res].is_ingested /\ Len(ContentOf(res).pages) = 2

\* C2: is_ingested never goes back from true to false, and the step that ends
\* the processing of a resource in a failure (fetch, validation, extraction,
\* persistence of a page or of the flag, a killed process) leaves it false.
C2_IngestedFlagMonotone ==
    [][\A res \in ResourceIds :
          /\ company_resources[res].is_ingested => company_resources'[res].is_ingested
          /\ \A k \in RunIds :
                (/\ outcome'[<<k, res>>] # outcome[<<k, res>>]
                 /\ outcome'[<<k, res>>] \in FailureOutcomes)
                => /\ ~company_resources[res].is_ingested
                   /\ ~company_resources'[res].is_ingested]_vars

\* a resource failed in the first run, and the second run marked it
C2_Witness ==
    \E res \in ResourceIds :
        /\ outcome[<<1, res>>] \in FailureOutcomes
        /\ outcome[<<2, res>>] = "ok"
        /\ company_resources[res].is_ingested

\* C3: a run that starts after a run marked a resource ingested does not select
\* the resource, does not fetch it and creates no Document or Chunk for it.
C3_SecondRunIsNoOp ==
    \A res \in ResourceIds : \A k \in RunIds : \A k2 \in RunIds :
        (k < k2 /\ outcome[<<k, res>>] = "ok") =>
            /\ res \notin selected[k2]
            /\ fetchCalls[<<k2, res>>] = 0
            /\ CreatedBy(k2, res) = {}
            /\ outcome[<<k2, res>>] = "none"

\* a second run returned after the first one marked a resource
C3_Witness ==
    \E res \in ResourceIds :
        /\ outcome[<<1, res>>] = "ok"
        /\ Len(ContentOf(res).pages) > 0
        /\ runEnd[2] = "returned"

\* C4: when a run returns, every resource it selected was processed in it, and
\* each one whose processing succeeded is marked ingested, whatever failed for
\* the others.
C4_FailureDoesNotAbortRun ==
    \A k \in RunIds :
        runEnd[k] = "returned" =>
            \A res \in selected[k] :
                /\ outcome[<<k, res>>] # "none"
                /\ outcome[<<k, res>>] = "ok" => company_resources[res].is_ingested

\* a run returned in which a resource failed and a later one succeeded
C4_Witness ==
    \E k \in RunIds : \E res1 \in selected[k] : \E res2 \in selected[k] :
        /\ runEnd[k] = "returned"
        /\ res1 < res2
        /\ outcome[<<k, res1>>] \in FailureOutcomes
        /\ outcome[<<k, res2>>] = "ok"
        /\ company_resources[res2].is_ingested

\* C5: after the processing of a resource ended in a failure or with the
\* process killed, every committed Document of the resource has the Chunks
\* split from its text (a Document never becomes durable without them).
C5_NoOrphanDocumentAfterFailure ==
    \A res \in ResourceIds :
        (/\ \E k \in RunIds : outcome[<<k, res>>] \in FailureOutcomes
         /\ \A r \in runners :
                proc[r].pc \in {"extract", "document", "chunks", "mark"}
                => Resource(r) # res)
        => \A d \in DocsOf(res) : HasItsChunks(d)

\* C6: after a run that failed for a resource and a later run that succeeded
\* for it, the store holds one Document per page of the resource, each with
\* the Chunks split from it, and nothing else for the resource.
C6_RetryIsIdempotent ==
    \A res \in ResourceIds : \A k \in RunIds : \A k2 \in RunIds :
        (k < k2 /\ outcome[<<k, res>>] \in FailureOutcomes /\ outcome[<<k2, res>>] = "ok")
        => /\ Cardinality(DocsOf(res)) = Len(ContentOf(res).pages)
           /\ \A p \in 1 .. Len(ContentOf(res).pages) : Cardinality(PageDocs(res, p)) = 1
           /\ \A d \in DocsOf(res) : HasItsChunks(d)

\* C7: a resource whose bytes do not start with %PDF- has no Document and no
\* Chunk, and is not marked ingested.
C7_NonPdfCreatesNothing ==
    \A res \in ResourceIds :
        ~StartsWith(ContentOf(res), PdfMagic)
        => /\ DocsOf(res) = {}
           /\ \A k \in RunIds : CreatedBy(k, res) = {}
           /\ ~company_resources[res].is_ingested

\* C8: a resource is fetched at most once per run; when the fetch raised, it
\* was attempted once, the run created no row for the resource, the resource
\* stays un-ingested until a later run succeeds, and the next run selects it.
C8_FetchErrorNoRetry ==
    \A res \in ResourceIds : \A k \in RunIds :
        /\ fetchCalls[<<k, res>>] <= 1
        /\ outcome[<<k, res>>] = "fetch_error"
           => /\ fetchCalls[<<k, res>>] = 1
              /\ CreatedBy(k, res) = {}
              /\ (\A k2 \in RunIds : k2 > k => outcome[<<k2, res>>] # "ok")
                 => ~company_resources[res].is_ingested
              /\ k + 1 <= runsStarted => res \in selected[k + 1]

\* the fetch of a resource raised in the first run and the second run took it up
C8_Witness ==
    \E res \in ResourceIds :
        /\ outcome[<<1, res>>] = "fetch_error"
        /\ res \in selected[2]
        /\ fetchCalls[<<2, res>>] = 1

\* C9: a run in which the extraction of a resource failed created no Document
\* and no Chunk for it; rows are created only from a page list that the loader
\* returned in full.
C9_FailedExtractionCreatesNothing ==
    /\ \A res \in ResourceIds : \A k \in RunIds :
           outcome[<<k, res>>] = "extract_error" => CreatedBy(k, res) = {}
    /\ \A x \in created : ContentOf(x.resource).readable
    /\ \A r \in runners :
           proc[r].pc \in {"document", "chunks"}
           => /\ ContentOf(Resource(r)).readable
              /\ proc[r].pages = ContentOf(Resource(r)).pages

\* the loader raised after it had read a page
C9_Witness ==
    \E res \in ResourceIds : \E k \in RunIds :
        /\ outcome[<<k, res>>] = "extract_error"
        /\ Len(ContentOf(res).pages) > 0

\* C10: after a successful ingestion of a resource of n pages, the resource has
\* n Documents, one for each page number 1..n, each with the resource's id,
\* company id and location, and every Chunk of such a Document has the
\* Document's id and the resource's company id.
C10_DocumentsOfIngestedResource ==
    \A res \in ResourceIds : \A k \in RunIds :
        outcome[<<k, res>>] = "ok"
        => /\ Cardinality(DocsOf(res)) = Len(ContentOf(res).pages)
           /\ \A p \in 1 .. Len(ContentOf(res).pages) : Cardinality(PageDocs(res, p)) = 1
           /\ \A d \in DocsOf(res) :
                 /\ d.page_number \in 1 .. Len(ContentOf(res).pages)
                 /\ d.resource_id = company_resources[res].id
                 /\ d.company_id = company_resources[res].company_id
                 /\ d.file_path = company_resources[res].resource_location
                 /\ \A c \in ChunksOf(d) :
                        c.company_id = company_resources[res].company_id

(***************************************************************************)
(* Properties of the store under all the scripts.                          *)
(***************************************************************************)
\* the text has a character that is not whitespace
HasCharacters(text) == \E j \in 1 .. Len(text) : text[j] > 0

\* the documents of the pages that a run of ingestion got through: the
\* processing of their resource reached the is_ingested commit
CompletedPageDocs ==
    {d \in documents :
       \E x \in created : /\ x.id = d.id
                          /\ outcome[<<x.run, x.resource>>] \in {"ok", "mark_error"}}

\* the chunks that ingestion wrote
IngestedChunks == {c \in chunks : \E x \in created : x.id = c.id}

\* C11 as stated: every page text, the empty and the whitespace-only one
\* included, gets one or more Chunks from ingestion, and no persisted Chunk
\* has empty text.
C11_EveryPageTextGetsAChunk ==
    /\ \A d \in CompletedPageDocs : ChunksOf(d) # {}
    /\ \A c \in chunks : c.text # <<>> /\ c.text # TextEmpty

\* C11, amended: a Document created by ingestion gets one or more Chunks
\* exactly when its page text has a character that is not whitespace; an
\* empty or whitespace-only page text gets none.  Every Chunk persisted by
\* ingestion or by process_documents_to_chunks has such a character, so none
\* is empty.
C11_ChunksOfPageTexts ==
    /\ \A d \in CompletedPageDocs : HasCharacters(d.text) <=> ChunksOf(d) # {}
    /\ \A c \in chunks : HasCharacters(c.text)

\* ingestion got through a resource with a long, a whitespace-only and an
\* empty page, and process_documents_to_chunks wrote a chunk
C11_Witness ==
    /\ \E d \in CompletedPageDocs : d.text = TextBlank /\ ChunksOf(d) = {}
    /\ \E d \in CompletedPageDocs : d.text = TextEmpty /\ ChunksOf(d) = {}
    /\ \E d \in CompletedPageDocs : d.text = TextLong /\ Cardinality(ChunksOf(d)) = 2
    /\ IngestedChunks # {}
    /\ \E c \in chunks : c.id \in rechunked

\* C12: in every reachable state, after any sequence of ingestion runs
\* (successful or failed), re-chunking runs and contextualisation runs,
\* every Chunk's document_id is the id of a Document of the store, and every
\* Document's resource_id, when present, is the id of a Resource.
C12_ReferentialIntegrity ==
    /\ \A c \in chunks : \E d \in documents : d.id = c.document_id
    /\ \A d \in documents :
          d.resource_id # NullInt =>
             /\ d.resource_id \in DOMAIN company_resources
             /\ company_resources[d.resource_id].id = d.resource_id

\* a failed ingestion left a Document of resource 1 without Chunks, and
\* process_documents_to_chunks gave it and the Document without a resource
\* their Chunks
C12_Witness ==
    /\ \E k \in RunIds : outcome[<<k, 1>>] \in FailureOutcomes
    /\ \E d \in documents :
          /\ d.resource_id = 1
          /\ \E c \in ChunksOf(d) : c.id \in rechunked
    /\ \E d \in documents :
          /\ d.resource_id = NullInt
          /\ \E c \in ChunksOf(d) : c.id \in rechunked

\* C13: no step of ingestion, process_documents_to_chunks, contextualisation
\* or vector indexing changes the text of an existing Document or of an
\* existing Chunk, and the only field of an existing Chunk that a step
\* changes is context.
C13_TextIsNeverRewritten ==
    [][ /\ \A d \in documents : \A e \in documents' : e.id = d.id => e.text = d.text
        /\ \A c \in chunks : \A e \in chunks' :
              e.id = c.id => e = [c EXCEPT !.context = e.context] ]_vars

\* process_documents_to_chunks gave the Document without file_path its
\* defaults and its Chunk, and the contextualiser wrote the Chunk's context
C13_Witness ==
    \E d \in documents :
       /\ d.id = LegacyDocument.id
       /\ d.file_path = UnknownPath
       /\ d.text = LegacyDocument.text
       /\ \E c \in ChunksOf(d) : c.context # None /\ c.text = TextShort

(***************************************************************************)
(* Properties of ingest_chunks_to_pinecone.                                *)
(***************************************************************************)
\* the records of all the upsert calls of a run, in the order sent
RECURSIVE Flatten(_)
Flatten(batches) ==
    IF batches = <<>> THEN <<>> ELSE Head(batches) \o Flatten(Tail(batches))

Upserted(run) == Flatten(run.upserts)

\* the chunk ids of the records of a list
ChunkIdsOf(records) == {AsUuid(records[j].metadata.chunk_id) : j \in 1 .. Len(records)}

\* the parent Document a Chunk had when the run queried the store
ParentAtQuery(run, c) == {d \in run.docsAtQuery : d.id = c.document_id}

\* the Chunks the run's exclusion filter excludes
ExcludedChunks(run) ==
    {c \in run.chunksAtQuery :
       \E d \in ParentAtQuery(run, c) : Like(d.file_path, run.exclude_path)}

C15_OneRecordPerChunk ==
    \A v \in pinecone.vectors : \A w \in pinecone.vectors :
       v.metadata.chunk_id = w.metadata.chunk_id => v = w

\* the Chunk a record was built from
ChunkOfRecord(run, record) ==
    CHOOSE c \in run.chunksAtQuery : c.id = AsUuid(record.metadata.chunk_id)

\* C16: the payload built for a Chunk is the Chunk's context, a blank line,
\* then the Chunk's text, the context part being the empty string when the
\* Chunk has no context.
C16_PayloadIsContextThenText ==
    \A n \in 1 .. Len(indexRuns) :
       \A j \in 1 .. Len(indexRuns[n].prepared) :
          LET record == indexRuns[n].prepared[j]
              chunk == ChunkOfRecord(indexRuns[n], record)
          IN  record.page_content =
                 (IF chunk.context = None THEN <<>> ELSE <<chunk.context>>)
                   \o <<[lit |-> "\n\n"], [text |-> chunk.text]>>

Prefix(list, m) == SubSeq(list, 1, m)

\* C18: the batches of a run partition the prepared list in order: every
\* batch has at most 100 records, every batch but the last has exactly 100,
\* no record is sent twice, and when the run returns every prepared record
\* has been sent.
C18_BatchesPartitionPrepared ==
    \A n \in 1 .. Len(indexRuns) :
       LET run == indexRuns[n]
           sent == Upserted(run)
       IN  /\ \A j \in 1 .. Len(run.upserts) :
                /\ Len(run.upserts[j]) >= 1
                /\ Len(run.upserts[j]) <= BatchSize
                /\ j < Len(run.upserts) => Len(run.upserts[j]) = BatchSize
           /\ Len(sent) <= Len(run.prepared)
           /\ sent = Prefix(run.prepared, Len(sent))
           /\ run.end = "returned" => sent = run.prepared

\* a run that sent MaxBatches full batches and a last batch of one record,
\* and a run whose prepared list was MaxBatches full batches exactly
C18_Witness ==
    /\ \E n \in 1 .. Len(indexRuns) :
          /\ indexRuns[n].end = "returned"
          /\ Len(indexRuns[n].prepared) = MaxBatches * BatchSize + 1
          /\ Len(indexRuns[n].upserts) = MaxBatches + 1
    /\ \E n \in 1 .. Len(indexRuns) :
          /\ indexRuns[n].end = "returned"
          /\ Len(indexRuns[n].prepared) = MaxBatches * BatchSize
          /\ Len(indexRuns[n].upserts) = MaxBatches

\* number of create_index calls of the runs so far
RECURSIVE TotalCreates(_)
TotalCreates(runs) ==
    IF runs = <<>> THEN 0 ELSE Head(runs).creates + TotalCreates(Tail(runs))

\* C19: a run creates the index only if it does not exist, at most once and
\* before its first batch is upserted; a run against an existing index
\* creates nothing, so the runs together create the index at most once.
C19_IndexCreatedOnce ==
    /\ \A n \in 1 .. Len(indexRuns) :
          LET run == indexRuns[n]
          IN  /\ run.creates <= 1
              /\ run.creates = 1 => run.existed = "no" /\ run.upsertsAtCreate = 0
              /\ run.existed = "yes" => run.creates = 0
              /\ run.upserts # <<>> => run.existed # "unchecked"
    /\ pinecone.vectors # {} => IndexName \in pinecone.indexes
    /\ TotalCreates(indexRuns) <= 1

\* a first run that created the index and a second that found it, both of
\* which upserted
C19_Witness ==
    /\ Len(indexRuns) = 2
    /\ indexRuns[1].existed = "no" /\ indexRuns[1].creates = 1
    /\ indexRuns[1].upserts # <<>>
    /\ indexRuns[2].existed = "yes" /\ indexRuns[2].creates = 0
    /\ indexRuns[2].upserts # <<>> /\ indexRuns[2].end = "returned"

\* the selected Chunks of a run whose parent Document was not found
MissingParent(run) ==
    {c \in {run.selected[j] : j \in 1 .. Len(run.selected)} :
       ~ \E d \in run.docsAtPrepare : d.id = c.document_id}

\* the ids of the selected Chunks of a run whose parent Document was found
FoundParentIds(run) ==
    {c.id : c \in {run.selected[j] : j \in 1 .. Len(run.selected)} \ MissingParent(run)}

\* C20: a selected Chunk whose parent Document is not found is skipped
\* without raising: it appears in no upsert call, every other selected Chunk
\* is prepared, and a run that returns has upserted every one of them.
C20_MissingParentIsSkipped ==
    \A n \in 1 .. Len(indexRuns) :
       LET run == indexRuns[n]
       IN  run.preparedDone =>
              /\ ChunkIdsOf(run.prepared) = FoundParentIds(run)
              /\ ChunkIdsOf(Upserted(run)) \cap {c.id : c \in MissingParent(run)} = {}
              /\ run.end = "returned" => ChunkIdsOf(Upserted(run)) = FoundParentIds(run)

\* a run that returned after it skipped a Chunk in the middle of its list and
\* upserted the Chunks before and after it
C20_Witness ==
    \E n \in 1 .. Len(indexRuns) :
       /\ indexRuns[n].end = "returned"
       /\ {c.id : c \in MissingParent(indexRuns[n])} = {6}
       /\ ChunkIdsOf(Upserted(indexRuns[n])) = {4, 5, 7}

(***************************************************************************)
(* The batch loop under a failing store, the contextualiser's commits and  *)
(* return value, the retriever and the chat service.                       *)
(***************************************************************************)

\* C21: a failure of the embed/upsert call of one batch does not abort the
\* job: in a run that has ended after a batch failed, the records of every
\* batch after the failed one have been upserted.  The failed batch of a run
\* is the one after the batches it upserted.
C21_LaterBatchesStillUpserted ==
    \A n \in 1 .. Len(indexRuns) :
       LET run == indexRuns[n]
           failed == Len(run.upserts) + 1
       IN  (run.end = "raised" /\ run.preparedDone) =>
              \A j \in 1 .. Len(run.prepared) :
                 j > failed * BatchSize =>
                    \E k \in 1 .. Len(Upserted(run)) :
                       Upserted(run)[k] = run.prepared[j]

\* C22: the contextualiser commits after each Chunk's context update: when a
\* call crashes on its k-th Chunk, the contexts it generated for the k-1
\* Chunks before it are in the store.
C22_ContextsBeforeCrashAreDurable ==
    \A n \in 1 .. Len(cxRuns) :
       LET run == cxRuns[n]
       IN  run.end = "raised" =>
              \A j \in 1 .. Len(run.generated) :
                 \E c \in run.after :
                    /\ c.id = run.generated[j][1]
                    /\ c.context = run.generated[j][2]

\* the calls of update_chunk_contexts_in_db so far
UpdateCalls == {n \in 1 .. Len(cxRuns) : cxRuns[n].method = "update_chunk_contexts_in_db"}

\* the Chunks of the call's Document when the call began
ChunksOfCall(run) == {c \in run.before : c.document_id = run.document_id}

\* C23: update_chunk_contexts_in_db returns the number of Chunks of the
\* Document whose context it updated; for a Document that does not exist it
\* returns zero, calls the language model not once and changes no Chunk.
C23_ReturnsUpdatedCount ==
    \A n \in UpdateCalls :
       LET run == cxRuns[n]
           updated == {c \in run.after : c.document_id = run.document_id /\ c \notin run.before}
       IN  /\ (run.found /\ run.end = "returned") =>
                 /\ run.returned = Cardinality(updated)
                 /\ run.returned = Cardinality(ChunksOfCall(run))
                 /\ {c.id : c \in updated} =
                       {run.generated[j][1] : j \in 1 .. Len(run.generated)}
           /\ ~run.found =>
                 /\ run.end = "returned"
                 /\ run.returned = 0
                 /\ run.llmAfter = run.llmBefore
                 /\ run.after = run.before
                 /\ run.generated = <<>>

\* one call returned 2 for a Document of two Chunks, another returned 0 for
\* an id that no Document has
C23_Witness ==
    /\ \E n \in UpdateCalls :
          /\ cxRuns[n].found
          /\ cxRuns[n].end = "returned"
          /\ cxRuns[n].returned = 2
    /\ \E n \in UpdateCalls :
          /\ cxRuns[n].document_id = MissingDocumentId
          /\ cxRuns[n].returned = 0
          /\ chunks # {}

\* the contexts a call generated for the Chunk of an id
GeneratedFor(run, id) ==
    {run.generated[j][2] : j \in {k \in 1 .. Len(run.generated) : run.generated[k][1] = id}}

\* C24: a run of the contextualiser on a Document, a re-run included, leaves
\* in each of its Chunks either the context it had or the newly generated
\* one alone, changes nothing else of the Chunk, creates and deletes no
\* Chunk, and leaves the Chunks of the other Documents as they were.
C24_RerunOverwrites ==
    \A n \in 1 .. Len(cxRuns) :
       LET run == cxRuns[n]
       IN  /\ Cardinality(run.after) = Cardinality(run.before)
           /\ {c.id : c \in run.after} = {c.id : c \in run.before}
           /\ \A c \in run.after :
                 \E b \in run.before :
                    /\ b.id = c.id
                    /\ c = [b EXCEPT !.context = c.context]
                    /\ c.document_id # run.document_id => c = b
                    /\ c.context \in {b.context} \cup GeneratedFor(run, c.id)
                    /\ run.end = "returned" => c.context \in
                          (IF c.document_id = run.document_id
                           THEN GeneratedFor(run, c.id) ELSE {b.context})

\* a Document was contextualised twice: its Chunks, which had the contexts
\* of the first run, now have those of the second, and the store still has
\* Chunks of other Documents
C24_Witness ==
    /\ Len(cxRuns) >= 2
    /\ cxRuns[1].end = "returned"
    /\ cxRuns[2].end = "returned"
    /\ cxRuns[1].found
    /\ cxRuns[2].document_id = cxRuns[1].document_id
    /\ Len(cxRuns[2].generated) = 2
    /\ \A j \in 1 .. 2 :
          /\ \E b \in cxRuns[2].before :
                /\ b.id = cxRuns[2].generated[j][1]
                /\ b.context \in GeneratedFor(cxRuns[1], b.id)
          /\ \E c \in chunks :
                /\ c.id = cxRuns[2].generated[j][1]
                /\ c.context \in GeneratedFor(cxRuns[2], c.id)
                /\ c.context \notin GeneratedFor(cxRuns[1], c.id)
    /\ \E c \in chunks : c.document_id # cxRuns[2].document_id

\* C25: query_vector_store rejects a top_k of zero or less at once: the call
\* ends in an error and has made no embedding and no vector-store call.
C25_NonPositiveTopKRejected ==
    (chat.call = "query_vector_store" /\ chat.top_k <= 0 /\ chat.pc = "idle") =>
        /\ chat.result = "raised"
        /\ chat.queries = <<>>

\* the documents the vector store can make of the records of the index
StoredPassages == {Passage(v) : v \in pinecone.vectors}

\* C26: query_vector_store returns at most top_k passages, each with the
\* page content and the metadata of a record of the index, and for an empty
\* index it returns the empty list and no error (top_k >= 1, and the
\* embedding service and the vector store answer).
C26_AtMostTopKStoredPassages ==
    (chat.call = "query_vector_store" /\ chat.top_k >= 1 /\ chat.pc = "idle") =>
        /\ chat.result = "returned" =>
              /\ Len(chat.returned) <= chat.top_k
              /\ \A j \in 1 .. Len(chat.returned) : chat.returned[j] \in StoredPassages
              /\ pinecone.vectors = {} => chat.returned = <<>>
        /\ (pinecone.vectors = {} /\ faults = 0) => chat.result = "returned"

\* a call that returned top_k passages from an index that holds more
C26_Witness ==
    /\ chat.call = "query_vector_store"
    /\ chat.result = "returned"
    /\ chat.top_k >= 1
    /\ Len(chat.returned) = chat.top_k
    /\ Cardinality(pinecone.vectors) > chat.top_k
    /\ \A j \in 1 .. Len(chat.returned) :
          "chunk_id" \in DOMAIN chat.returned[j].metadata


\* the history has a message of role user
HasUserMessage(messages) == \E j \in 1 .. Len(messages) : messages[j].role = "user"

\* C27: for a history with at least one user message, whatever its content,
\* generate_response retrieves exactly once, with the content of the most
\* recent user message as the query and top_k = 3.
C27_RetrievesOnceForLatestUserMessage ==
    (/\ chat.call = "generate_response"
     /\ chat.pc \in {"context", "predict", "idle"}
     /\ HasUserMessage(chat.messages)) =>
        /\ Len(chat.queries) = 1
        /\ chat.queries[1] = [query_text |-> LatestUserMessage(chat.messages),
                              k |-> GenerateTopK]

\* C28: for a history without a user message generate_response retrieves
\* nothing, calls the chat model exactly once, on the system prompt and the
\* history, and returns an empty citation list.
C28_NoUserMessageNoRetrieval ==
    (chat.call = "generate_response" /\ ~HasUserMessage(chat.messages)) =>
        /\ chat.queries = <<>>
        /\ chat.retrieved = "none"
        /\ chat.pc = "idle" =>
              /\ Len(chat.predicts) = 1
              /\ chat.predicts[1] = LangchainMessages(<<>>, chat.messages)
        /\ chat.result = "returned" =>
              /\ chat.returned.content = ResponseContent
              /\ chat.returned.metadata = <<>>

\* a call with a history of messages none of which is a user's has returned
C28_Witness ==
    /\ chat.call = "generate_response"
    /\ chat.messages # <<>>
    /\ ~HasUserMessage(chat.messages)
    /\ chat.result = "returned"
    /\ Len(chat.predicts) = 1
    /\ Len(chat.predicts[1]) = 2

\* C29: generate_response returns one citation entry per passage used for
\* grounding, in retrieval order, each with the five fields chunk_id,
\* document_id, company_id, file_path and page_number of the passage's
\* metadata, page_number being 0 when the metadata has none.
C29_CitationPerPassage ==
    (chat.call = "generate_response" /\ chat.result = "returned") =>
        /\ Len(chat.returned.metadata) = Len(chat.vector_results)
        /\ \A j \in 1 .. Len(chat.returned.metadata) :
              LET entry == chat.returned.metadata[j]
                  metadata == chat.vector_results[j].metadata
              IN  /\ DOMAIN entry = {"chunk_id", "document_id", "company_id",
                                     "file_path", "page_number"}
                  /\ entry.chunk_id = metadata.chunk_id
                  /\ entry.document_id = metadata.document_id
                  /\ entry.company_id = metadata.company_id
                  /\ entry.file_path = metadata.file_path
                  /\ entry.page_number = IF "page_number" \in DOMAIN metadata
                                         THEN metadata.page_number ELSE 0

\* C30: the context block of generate_response holds each distinct retrieved
\* passage once: a passage the retriever returned more than once is wrapped
\* a single time.
C30_DistinctPassagesWrappedOnce ==
    (chat.call = "generate_response" /\ chat.vector_context # <<>>) =>
        LET passages == chat.vector_context[1].passages
            distinct == {chat.vector_results[j] : j \in 1 .. Len(chat.vector_results)}
        IN  /\ Len(passages) = Cardinality(distinct)
            /\ \A d \in distinct :
                  Cardinality({j \in 1 .. Len(passages) : passages[j] = d.page_content}) = 1

(***************************************************************************)
(* The message list of the chat model, failures of retrieval, the          *)
(* scenario of a long page, the frame of each script, the race of two      *)
(* ingestion runs, the retry of a resource and the uploader.               *)
(***************************************************************************)

\* C31: the message list handed to the chat model is the grounding context
\* block, then the fixed system instruction, then every message of the
\* history, tagged with its role, in the order of the history.
C31_ContextThenInstructionThenHistory ==
    (chat.call = "generate_response" /\ chat.predicts # <<>>) =>
        LET tagged == [j \in 1 .. Len(chat.messages) |->
                         [type |-> IF chat.messages[j].role = "user" THEN "human"
                                   ELSE IF chat.messages[j].role = "assistant" THEN "ai"
                                   ELSE chat.messages[j].role,
                          content |-> chat.messages[j].content]]
        IN  chat.predicts[1] =
               chat.vector_context \o <<[type |-> "system", content |-> SystemPrompt]>>
                                  \o tagged

\* C32: when retrieval fails during generate_response the call ends in an
\* error: it returns no answer and no citation list, and the chat model is
\* not invoked.
C32_RetrievalFailureEndsCall ==
    (chat.call = "generate_response" /\ chat.retrieved = "raised") =>
        /\ chat.pc = "idle"
        /\ chat.result = "raised"
        /\ chat.returned = None
        /\ chat.doc_metadata = <<>>
        /\ chat.predicts = <<>>

\* the retrieval of a call of generate_response failed, over an index that
\* holds records
C32_Witness ==
    /\ chat.call = "generate_response"
    /\ chat.retrieved = "raised"
    /\ Len(chat.queries) = 1
    /\ pinecone.vectors # {}

\* C33: a call of extract_pdf_to_document_db for a 2-page PDF whose page 1
\* has 2500 characters, with chunk_size 1000 and overlap 30, creates exactly
\* 2 Documents, and 3 or more Chunks for page 1, none of them empty.
C33_LongPageGetsThreeChunks ==
    (/\ ex.end = "returned"
     /\ Len(ex.pages) = 2
     /\ Chars(ex.pages[1]) = 2500) =>
        /\ Cardinality(ex.docs) = 2
        /\ \E d \in documents :
              /\ d.id \in ex.docs
              /\ d.page_number = 1
              /\ Cardinality(ChunksOf(d)) >= 3
              /\ \A c \in ChunksOf(d) : HasCharacters(c.text)

\* C34: once a Document has been created its text, page_number, file_path
\* and company id never change, whatever operation runs; only its
\* resource_id may.
C34_DocumentFieldsNeverChange ==
    [][\A d \in documents :
         \A e \in documents' :
            e.id = d.id =>
               /\ e.text = d.text
               /\ e.page_number = d.page_number
               /\ e.file_path = d.file_path
               /\ e.company_id = d.company_id]_vars

\* C35: in a contextualiser run a language-model failure on one Chunk ends
\* the work on that Chunk only: every other Chunk of the Document is still
\* contextualised in the run.
C35_FailureAbortsOneChunkOnly ==
    \A n \in 1 .. Len(cxRuns) :
       LET run == cxRuns[n]
       IN  (run.found /\ run.end = "raised") =>
              Len(run.generated) >= Cardinality(ChunksOfCall(run)) - 1

\* C36: a step of process_documents_to_chunks creates Chunks only for a
\* Document that has none, and leaves every Document that has Chunks and
\* every existing Chunk as they are; so a second run creates no Chunk for a
\* Document that got one in the first.
C36_ChunksOnlyForDocumentsWithout ==
    [][rc' # rc =>
         /\ chunks \subseteq chunks'
         /\ \A d \in documents : ChunksOf(d) # {} => d \in documents'
         /\ \A c \in chunks' \ chunks :
               /\ \E d \in documents : d.id = c.document_id
               /\ \A k \in chunks : k.document_id # c.document_id]_vars

\* process_documents_to_chunks ran twice and nothing else did: the Document
\* without a resource has the one Chunk the first run gave it
C36_Witness ==
    /\ opsStarted = 2
    /\ runsStarted = 0
    /\ cxRuns = <<>>
    /\ indexRuns = <<>>
    /\ rc.pc = "idle"
    /\ faults = 0
    /\ Cardinality(rechunked) = 1
    /\ \E d \in documents :
          /\ d.resource_id = NullInt
          /\ {c.id : c \in ChunksOf(d)} = rechunked

\* C37: when two runs of process_resources_from_db interleave over the same
\* resource, both select it before either marks it, and nothing keeps the
\* second from adding its own Documents: whenever two runs both brought a
\* resource to the end, both had selected it and the store holds, for every
\* page of the file, one Document of each of the two runs.
C37_RacingRunsDuplicateDocuments ==
    \A res \in DOMAIN company_resources : \A k1, k2 \in RunIds :
        (k1 # k2 /\ outcome[<<k1, res>>] = "ok" /\ outcome[<<k2, res>>] = "ok") =>
            /\ res \in selected[k1] \cap selected[k2]
            /\ \A p \in 1 .. Len(s3[<<BucketOf(res), KeyOf(res)>>].pages) :
                  \E d1, d2 \in PageDocs(res, p) :
                      /\ d1.id # d2.id
                      /\ [id |-> d1.id, run |-> k1, resource |-> res] \in created
                      /\ [id |-> d2.id, run |-> k2, resource |-> res] \in created

C37_Witness ==
    /\ runners = AllRunners
    /\ \A r \in runners : proc[r].pc = "idle"
    /\ faults = 0
    /\ 1 \in selected[1] \cap selected[2]
    /\ outcome[<<1, 1>>] = "ok" /\ outcome[<<2, 1>>] = "ok"
    /\ Cardinality(PageDocs(1, 1)) = 2
    /\ Cardinality(PageDocs(1, 2)) = 2

\* the bytes of the resource's object are a PDF the loader reads
Parseable(res) ==
    LET file_content == s3[<<BucketOf(res), KeyOf(res)>>]
    IN  StartsWith(file_content, PdfMagic) /\ file_content.readable

\* C38: when batch ingestion is run repeatedly, then from the point on where
\* no fetch and no commit fails any more (the faults are used up) and a run
\* is still to come, a resource whose bytes are a readable PDF is eventually
\* marked ingested; and every run that starts selects exactly the resources
\* that are not marked, so the resource is selected by every run until then.
C38_EventuallyIngested ==
    /\ \A res \in OneResource :
          [](( /\ faults = MaxFaults
               /\ runsStarted < MaxRuns
               /\ Parseable(res) ) => <>(company_resources[res].is_ingested))
    /\ [][\A k \in RunIds :
            (runEnd[k] = "none" /\ runEnd'[k] # "none") =>
                selected'[k] = {res \in OneResource :
                                   ~company_resources[res].is_ingested}]_vars

C38_Witness ==
    /\ faults = MaxFaults
    /\ runsStarted = MaxRuns
    /\ \E res \in OneResource :
          /\ Parseable(res)
          /\ company_resources[res].is_ingested
          /\ \A k \in RunIds : res \in selected[k]
          /\ outcome[<<1, res>>] \in {"fetch_error", "persist_error", "killed"}
          /\ outcome[<<MaxRuns, res>>] = "ok"

\* C39: each stage writes only its own output: a step of
\* ingest_chunks_to_pinecone leaves the tables company_resources, documents
\* and chunks as they are, and a step that writes to the vector index is a
\* step of neither batch ingestion nor the contextualiser nor the chunking
\* script.
C39_StagesWriteOnlyTheirOutput ==
    [][/\ ix' # ix => UNCHANGED <<company_resources, documents, chunks>>
       /\ pinecone' # pinecone =>
             /\ ix.pc # "idle"
             /\ UNCHANGED <<proc, cx, rc>>
       /\ (proc' # proc \/ cx' # cx) => UNCHANGED pinecone]_vars

C39_Witness ==
    /\ ix.pc = "idle" /\ cx.pc = "idle" /\ rc.pc = "idle"
    /\ \A r \in runners : proc[r].pc = "idle"
    /\ runsStarted = 1 /\ runEnd[1] = "returned"
    /\ \E k \in DOMAIN company_resources : company_resources[k].is_ingested
    /\ Len(indexRuns) = 1 /\ indexRuns[1].end = "returned"
    /\ indexRuns[1].upserts # <<>>
    /\ pinecone.vectors # {}
    /\ chunks # {}
    /\ documents = indexRuns[1].docsAtQuery
    /\ chunks = indexRuns[1].chunksAtQuery

\* the files of a directory
FilesOfDir(local_path) ==
    {GetAllFiles(local_path)[n] : n \in 1 .. Len(GetAllFiles(local_path))}

\* the files of a list of report entries
FilesOf(entries, key) == {entries[n][key] : n \in 1 .. Len(entries)}

\* C40: upload_files records a row of company_resources only for a file it
\* has uploaded (the object is in the bucket and the file is in
\* uploaded_files), and the row has is_ingested = FALSE; every file of the
\* directory handled so far is in exactly one of failed_files,
\* db_recorded_files and db_failed_files, and the counts of the report add
\* up: successful_uploads + failed_uploads = total_files and
\* successful_db_records + failed_db_records = successful_uploads.
C40_UploadAccounting ==
    LET failed == FilesOf(up.failed_files, "file")
        recorded == FilesOf(up.db_recorded_files, "local_path")
        unrecorded == FilesOf(up.db_failed_files, "file")
        uploaded == FilesOf(up.uploaded_files, "local_path")
    IN  /\ \A id \in DOMAIN company_resources :
              /\ company_resources[id].is_ingested = FALSE
              /\ \E file_path \in UNION {FilesOfDir(d) : d \in 1 .. Len(Directories)} :
                    /\ company_resources[id].source_location = LocalPath(file_path)
                    /\ <<UploaderBucket, S3Key(file_path)>> \in DOMAIN s3
        /\ \A id \in up.rows :
              \E n \in 1 .. Len(up.db_recorded_files) :
                  /\ company_resources[id].resource_location =
                         up.db_recorded_files[n].s3_url
                  /\ company_resources[id].source_location =
                         up.db_recorded_files[n].abs_path
        /\ Cardinality(up.rows) = Len(up.db_recorded_files)
        /\ {up.files[n] : n \in 1 .. up.i} = failed \cup recorded \cup unrecorded
        /\ failed \cap recorded = {} /\ failed \cap unrecorded = {}
        /\ recorded \cap unrecorded = {}
        /\ uploaded = recorded \cup unrecorded
        /\ Len(up.failed_files) + Len(up.db_recorded_files)
              + Len(up.db_failed_files) = up.i
        /\ (up.report # None /\ up.files # <<>>) =>
              /\ up.report.total_files = Len(GetAllFiles(up.local_path))
              /\ up.report.successful_uploads + up.report.failed_uploads
                    = up.report.total_files
              /\ up.report.successful_db_records + up.report.failed_db_records
                    = up.report.successful_uploads
              /\ up.report.successful_db_records = Cardinality(up.rows)

C40_Witness ==
    /\ up.pc = "idle"
    /\ up.report # None
    /\ up.files # <<>>
    /\ up.report.status = "partial_success"
    /\ up.report.total_files = 3
    /\ up.report.failed_uploads = 1
    /\ up.report.successful_db_records = 1
    /\ up.report.failed_db_records = 1
    /\ Cardinality(DOMAIN company_resources) = 1

====
